---- MODULE Spec2Model ----
(***************************************************************************)
(* Verification model of go-kafka-avro: the Confluent wire envelope        *)
(* (AvroEncoder / ProcessAvroMsg), the schema registry transport           *)
(* (SchemaRegistryClient.httpCall) and the caching registry client         *)
(* (CachedSchemaRegistryClient).                                           *)
(***************************************************************************)
EXTENDS Integers, Sequences, FiniteSets, TLC

VARIABLES
    \* ---- wire codec ----
    enc,        \* the AvroEncoder under test: [SchemaID, Content]
    wire,       \* [state, bytes, length]: result of Encode() / Length()
    rec,        \* the sarama.ConsumerMessage value: [Value, Spare]
    out,        \* outcome of ProcessAvroMsg on rec
    \* ---- registry transport ----
    client,     \* SchemaRegistryClient: [SchemaRegistryConnect, retries]
    ctor,       \* the constructor that built client
    callPc,     \* position of httpCall: "idle", "loop", "done"
    offset,     \* httpCall's local offset
    i,          \* httpCall's loop counter
    resp,       \* the response (or transport error) of the latest attempt
    log,        \* history of the iterations of this call: <<[ep, outcome, status, body]>>
    ret,        \* what httpCall returned
    payload,    \* httpCall's arguments: [op, method, body], body the unread bytes of the reader
    \* ---- caching client ----
    schemaCache,        \* CachedSchemaRegistryClient.schemaCache: id -> codec
    schemaIdCache,      \* CachedSchemaRegistryClient.schemaIdCache: schema text -> id
    schemaCacheLock,    \* RWMutex of schemaCache: [readers, writer]
    schemaIdCacheLock,  \* RWMutex of schemaIdCache: [readers, writer]
    callers,            \* per caller: position, operation, locals, result
    invoked,            \* number of operations invoked so far
    firstSchema,        \* per id: the schema the first successful GetSchema returned
    lastCreate,         \* the CreateSubject call that completed most recently
    \* ---- consumer ----
    callbacks,          \* ConsumerCallbacks: which hooks are set (non-nil)
    messages,           \* records pending on Consumer.Messages()
    errors,             \* errors pending on Consumer.Errors()
    notifications,      \* notifications pending on Consumer.Notifications()
    signals,            \* number of signals pending on the signals channel (cap 1)
    closed,             \* Consumer.Close() has been called: the channels are closed
    published,          \* what the bus has published so far: [records, errors, notifications]
    loop,               \* the receive loop of Consume: [pc, m, msg, failed, todo]
    errListener,        \* the goroutine ranging over Errors(): [pc, n]
    notifListener,      \* the goroutine ranging over Notifications(): [pc, n]
    trace,              \* history of what the consumer did: <<[ev, src, n, arg]>>
    \* ---- producer ----
    pcall,              \* the producer operation under way and its inputs
    pret                \* what the operation returned and which calls it made

codecVars == <<enc, wire, rec, out>>
transportVars == <<client, ctor, callPc, offset, i, resp, log, ret, payload>>
cacheVars == <<schemaCache, schemaIdCache, schemaCacheLock, schemaIdCacheLock,
               callers, invoked, firstSchema, lastCreate>>
callVars == <<ctor, callPc, offset, i, resp, log, ret, payload>>
consumerVars == <<callbacks, messages, errors, notifications, signals, closed,
                  published, loop, errListener, notifListener, trace>>
producerVars == <<pcall, pret>>
vars == <<enc, wire, rec, out, client, ctor, callPc, offset, i, resp, log, ret, payload,
          schemaCache, schemaIdCache, schemaCacheLock, schemaIdCacheLock,
          callers, invoked, firstSchema, lastCreate,
          callbacks, messages, errors, notifications, signals, closed,
          published, loop, errListener, notifListener, trace,
          pcall, pret>>

----------------------------------------------------------------------------
(* Bounds *)

\* longest Avro payload, in bytes
MaxLen == 2

\* most registry endpoints a client is configured with
MaxServers == 2

\* largest retry count passed to NewSchemaRegistryClientWithRetries
MaxRetries == 2

\* number of goroutines calling the caching client
NumCallers == 2

\* number of cache operations invoked in one run
MaxOps == 3

\* records the bus delivers to one consumer
MaxRecords == 2

\* errors the bus publishes on the error channel
MaxBusErrors == 1

\* notifications the bus publishes on the notification channel
MaxNotifications == 1

----------------------------------------------------------------------------
(* Bytes and fixed-width integers *)

TwoTo8 == 256
TwoTo16 == 65536

\* byte values the payloads and stray buffer bytes are drawn from
ByteVals == {0, 1, 255}

RECURSIVE SeqsUpTo(_, _)
SeqsUpTo(S, n) ==
    IF n = 0 THEN {<<>>}
    ELSE LET shorter == SeqsUpTo(S, n - 1)
         IN shorter \cup {Append(s, x) : s \in {t \in shorter : Len(t) = n - 1}, x \in S}

\* An integer wider than the checker's own is kept as two limbs: W(hi, lo)
\* is the number hi * 2^16 + lo with 0 <= lo < 2^16 (two's complement for a
\* negative Go int: -1 is W(-1, 65535)).
W(h, l) == [hi |-> h, lo |-> l]

\* Go's uint32(x) for a 64-bit int x: the value modulo 2^32
Uint32(x) == W(x.hi % TwoTo16, x.lo)

\* Go's int(x) for a uint32 x on a 64-bit platform: the same number
IntOfUint32(x) == x

\* binary.BigEndian.PutUint32(b, v) on a 4-byte slice
PutUint32(v) ==
    << (v.hi \div TwoTo8) % TwoTo8,
       v.hi % TwoTo8,
       (v.lo \div TwoTo8) % TwoTo8,
       v.lo % TwoTo8 >>

\* a little-endian read of the id
BigEndianUint32_LE(b) ==
    W(b[4] * TwoTo8 + b[3], b[2] * TwoTo8 + b[1])

\* binary.BigEndian.Uint32(b) of a 4-byte slice
BigEndianUint32(b) ==
    W(b[1] * TwoTo8 + b[2], b[3] * TwoTo8 + b[4])

----------------------------------------------------------------------------
(* AvroEncoder *)

\* the content placed before the schema id
Encode_ContentFirst(a) == <<0>> \o a.Content \o PutUint32(Uint32(a.SchemaID))

\* AvroEncoder.Encode: magic byte 0, 4-byte schema id, Avro binary content
Encode(a) == <<0>> \o PutUint32(Uint32(a.SchemaID)) \o a.Content

\* AvroEncoder.Length
Length(a) == 5 + Len(a.Content)

----------------------------------------------------------------------------
(* Go slice expressions on a message value.  A value is its visible bytes  *)
(* (Value, len = Len(Value)) and the bytes of the backing array that lie   *)
(* between len and cap (Spare).  s[lo:hi] panics unless lo <= hi <= cap.   *)

Cap(m) == Len(m.Value) + Len(m.Spare)

SlicePanics(m, lo, hi) == ~(0 <= lo /\ lo <= hi /\ hi <= Cap(m))

Slice(m, lo, hi) == SubSeq(m.Value \o m.Spare, lo + 1, hi)

----------------------------------------------------------------------------
(* avroConsumer.ProcessAvroMsg.  getSchemaOk and decodeOk are the outcomes *)
(* of the two collaborators (registry lookup, Avro engine).                *)

NoId == W(-1, 0)
NoMessage == [SchemaId |-> NoId, Payload |-> <<>>]

ProcessAvroMsg(m, getSchemaOk, decodeOk) ==
    IF SlicePanics(m, 1, 5)
    THEN [kind |-> "panic", at |-> "Value[1:5]", asked |-> NoId, msg |-> NoMessage]
    ELSE LET schemaId == IntOfUint32(BigEndianUint32(Slice(m, 1, 5))) IN
         IF ~getSchemaOk
         THEN [kind |-> "error", at |-> "GetSchema", asked |-> schemaId, msg |-> NoMessage]
         ELSE IF SlicePanics(m, 5, Len(m.Value))
         THEN [kind |-> "panic", at |-> "Value[5:]", asked |-> schemaId, msg |-> NoMessage]
         ELSE IF ~decodeOk
         THEN [kind |-> "error", at |-> "NativeFromBinary", asked |-> schemaId, msg |-> NoMessage]
         ELSE [kind |-> "ok", at |-> "return", asked |-> schemaId,
               msg |-> [SchemaId |-> schemaId, Payload |-> Slice(m, 5, Len(m.Value))]]

----------------------------------------------------------------------------
(* Inputs of the codec specification *)

\* schema ids: both ends of every byte of the id, and values a Go int can
\* hold that do not fit 32 bits
SchemaIDs == {W(0, 0), W(0, 1), W(0, 255), W(0, 256), W(0, 65535), W(1, 0),
              W(256, 0), W(32768, 0), W(65535, 65535),
              W(65536, 0), W(65536, 1), W(-1, 65535)}

Payloads == SeqsUpTo(ByteVals, MaxLen)

\* record values shorter than the 5-byte envelope, with or without spare
\* capacity behind them
ShortValues == {<<>>, <<0>>, <<0, 0, 0>>, <<0, 0, 0, 1>>}
SpareBytes == {<<>>, <<0, 0>>, <<0, 0, 1, 1, 1>>}

NotEncoded == [state |-> "none", bytes |-> <<>>, length |-> 0]
NoRecord == [Value |-> <<>>, Spare |-> <<>>]
NoOutcome == [kind |-> "none", at |-> "none", asked |-> NoId, msg |-> NoMessage]

InitCodec ==
    /\ enc \in [SchemaID : SchemaIDs, Content : Payloads]
    /\ wire = NotEncoded
    /\ rec = NoRecord
    /\ out = NoOutcome

\* the producer frames the message: sarama calls Encode() and Length()
DoEncode ==
    /\ wire.state = "none"
    /\ wire' = [state |-> "encoded", bytes |-> Encode(enc), length |-> Length(enc)]
    /\ UNCHANGED <<enc, rec, out>>
    /\ UNCHANGED <<transportVars, cacheVars, consumerVars, producerVars>>

\* the bus delivers the framed message to the consumer
DeliverFramed ==
    /\ wire.state = "encoded"
    /\ wire' = [wire EXCEPT !.state = "delivered"]
    /\ \E s \in SpareBytes : rec' = [Value |-> wire.bytes, Spare |-> s]
    /\ UNCHANGED <<enc, out>>
    /\ UNCHANGED <<transportVars, cacheVars, consumerVars, producerVars>>

\* the bus delivers a record that no AvroEncoder produced
DeliverShort ==
    /\ wire.state = "none"
    /\ \E v \in ShortValues, s \in SpareBytes :
           rec' = [Value |-> v, Spare |-> s]
    /\ wire' = [wire EXCEPT !.state = "foreign"]
    /\ UNCHANGED <<enc, out>>
    /\ UNCHANGED <<transportVars, cacheVars, consumerVars, producerVars>>

DoProcessAvroMsg ==
    /\ wire.state \in {"delivered", "foreign"}
    /\ out.kind = "none"
    /\ \E getSchemaOk \in BOOLEAN, decodeOk \in BOOLEAN :
           out' = ProcessAvroMsg(rec, getSchemaOk, decodeOk)
    /\ UNCHANGED <<enc, wire, rec>>
    /\ UNCHANGED <<transportVars, cacheVars, consumerVars, producerVars>>

\* the next message
NextMessage ==
    /\ out.kind # "none"
    /\ enc' \in [SchemaID : SchemaIDs, Content : Payloads]
    /\ wire' = NotEncoded
    /\ rec' = NoRecord
    /\ out' = NoOutcome
    /\ UNCHANGED <<transportVars, cacheVars, consumerVars, producerVars>>

NextCodec ==
    \/ DoEncode
    \/ DeliverFramed
    \/ DeliverShort
    \/ DoProcessAvroMsg
    \/ NextMessage


----------------------------------------------------------------------------
(* Registry transport: responses and errors *)

NoErr == [type |-> "none", code |-> 0, message |-> ""]

\* what http.Client.Do returns with a nil response
TransportErrs == {[type |-> "transport", code |-> 0, message |-> "timeout"],
                  [type |-> "transport", code |-> 0, message |-> "refused"]}

\* http.NewRequest rejecting the URL
NewRequestErr == [type |-> "request", code |-> 0, message |-> "parse url"]

\* json.Unmarshal rejecting a body
JsonErr == [type |-> "json", code |-> 0, message |-> "unmarshal"]

\* goavro.NewCodec rejecting a schema text
CodecErr == [type |-> "codec", code |-> 0, message |-> "schema"]

\* response statuses: both ends of the success and of the retriable range
Statuses == {200, 399, 404, 500, 599}

\* response bodies: two registry error objects, two schema objects, two id
\* objects, a JSON list, and bytes that are no JSON at all
Bodies == {"E1", "E2", "S1", "S2", "I1", "I2", "L1", "junk"}

Responses ==
    [err : TransportErrs, status : {0}, body : {""}]
      \cup [err : {NoErr}, status : Statuses, body : Bodies]

NoResp == [err |-> NoErr, status |-> 0, body |-> ""]

\* the {error_code, message} object a body holds, if it is one
IsErrorBody(b) == b \in {"E1", "E2"}
ErrorBody(b) ==
    IF b = "E1" THEN [error_code |-> 50001, message |-> "Error in the backend datastore"]
    ELSE [error_code |-> 40401, message |-> "Subject not found"]

\* newError: the registry's (code, message) when the body carries one, else
\* a generic message with the HTTP status
newError(r) ==
    IF IsErrorBody(r.body)
    THEN [type |-> "registry", code |-> ErrorBody(r.body).error_code,
          message |-> ErrorBody(r.body).message]
    ELSE [type |-> "registry", code |-> r.status, message |-> "Unrecognized error found"]

retriable_From400(r) == r.status >= 400 /\ r.status < 600

retriable(r) == r.status >= 500 /\ r.status < 600

okStatus_2xx(r) == r.status >= 200 /\ r.status < 300

okStatus(r) == r.status >= 200 /\ r.status < 400

----------------------------------------------------------------------------
(* SchemaRegistryClient *)

\* endpoint URLs; BadURL is a string url.Parse rejects
EndpointNames == <<"A", "B", "C", "D">>
BadURL == "%bad"

DefaultRetries_Zero(connect) == 0

\* NewSchemaRegistryClient's retry count
DefaultRetries(connect) == Len(connect)

\* a budget of one attempt per endpoint
NewSchemaRegistryClient_OnePass(connect) ==
    [SchemaRegistryConnect |-> connect, retries |-> Len(connect) - 1]

NewSchemaRegistryClient(connect) ==
    [SchemaRegistryConnect |-> connect, retries |-> DefaultRetries(connect)]

NewSchemaRegistryClientWithRetries(connect, retries) ==
    [SchemaRegistryConnect |-> connect, retries |-> retries]

nServers(c) == Len(c.SchemaRegistryConnect)

TargetIndex_Fixed(c, k, off) == off % nServers(c)

\* index of the endpoint attempt k goes to
TargetIndex(c, k, off) == (k + off) % nServers(c)

TargetURL(c, k, off) == c.SchemaRegistryConnect[TargetIndex(c, k, off) + 1]

ShouldRetry_OneMore(c, k, r) ==
    k <= c.retries /\ (r.err # NoErr \/ retriable(r))

\* the loop's continue condition
ShouldRetry(c, k, r) ==
    k < c.retries /\ (r.err # NoErr \/ retriable(r))

Ok(b) == [kind |-> "ok", body |-> b, err |-> NoErr]
Fail(e) == [kind |-> "error", body |-> "", err |-> e]
Panic == [kind |-> "panic", body |-> "", err |-> NoErr]
NoRet == [kind |-> "none", body |-> "", err |-> NoErr]

\* the error body is not looked at
Finish_StatusOnly(r) ==
    IF r.err # NoErr THEN Fail(r.err)
    ELSE IF ~okStatus(r)
    THEN Fail([type |-> "registry", code |-> r.status, message |-> "Unrecognized error found"])
    ELSE Ok(r.body)

\* the tail of the loop body, once the attempt is not retried
Finish(r) ==
    IF r.err # NoErr THEN Fail(r.err)
    ELSE IF ~okStatus(r) THEN Fail(newError(r))
    ELSE Ok(r.body)

----------------------------------------------------------------------------
(* Decoding of response bodies (encoding/json into the response structs)   *)

\* bodies that are a JSON object; json.Unmarshal into a struct accepts any
\* object and leaves the fields it does not find at their zero value
IsJsonObject(b) == b \in {"E1", "E2", "S1", "S2", "I1", "I2"}

\* the "schema" member of a body ("" when it has none)
SchemaField(b) == IF b = "S1" THEN "X" ELSE IF b = "S2" THEN "Y" ELSE ""

\* the "id" member of a body (0 when it has none)
IdField(b) == IF b = "I1" THEN 1 ELSE IF b = "I2" THEN 2 ELSE 0

\* SchemaRegistryClient.GetSubjects, given what httpCall returned
GetSubjects(r) ==
    IF r.kind # "ok" THEN [err |-> r.err, subjects |-> <<>>]
    ELSE IF r.body = "L1" THEN [err |-> NoErr, subjects |-> <<"test">>]
    ELSE [err |-> JsonErr, subjects |-> <<>>]

----------------------------------------------------------------------------
(* Transport specification: one httpCall at a time, attempt by attempt *)

\* the JSON of schemaResponse{codec.Schema()}, in the two pieces a reader
\* can have handed out separately
SchemaJson == <<"{\"schema\":", "\"X\"}">>

NoPayload == [op |-> "none", method |-> "", body |-> <<>>]

\* what the operations pass to httpCall: a nil reader for GET and DELETE,
\* bytes.NewBuffer(json) for the two POSTs
Payloads_Of ==
    {[op |-> "GetSubjects", method |-> "GET", body |-> <<>>],
     [op |-> "CreateSubject", method |-> "POST", body |-> SchemaJson],
     [op |-> "IsSchemaRegistered", method |-> "POST", body |-> SchemaJson]}

\* what is left in the reader after an attempt.  A server answers a request
\* it has received, so the reader is drained; an attempt that fails at
\* transport level has read any number of its pieces
LeftBy(body, r) ==
    IF r.err = NoErr THEN {<<>>}
    ELSE {SubSeq(body, n + 1, Len(body)) : n \in 0..Len(body)}

ConnectLists ==
    {SubSeq(EndpointNames, 1, n) : n \in 0..MaxServers}
      \cup {<<"A", BadURL>>}

InitTransport ==
    /\ \E connect \in ConnectLists :
         \/ /\ client = NewSchemaRegistryClient(connect)
            /\ ctor = "NewSchemaRegistryClient"
         \/ \E r \in (-1)..MaxRetries :
              /\ client = NewSchemaRegistryClientWithRetries(connect, r)
              /\ ctor = "NewSchemaRegistryClientWithRetries"
    /\ callPc = "idle"
    /\ offset = 0
    /\ i = 0
    /\ resp = NoResp
    /\ log = <<>>
    /\ ret = NoRet
    /\ payload = NoPayload

\* entry of httpCall: rand.Intn(nServers), which panics for nServers = 0
HttpCallBegin ==
    /\ callPc = "idle"
    /\ payload' \in Payloads_Of
    /\ IF nServers(client) = 0
       THEN /\ callPc' = "done"
            /\ ret' = Panic
            /\ offset' = 0
       ELSE /\ callPc' = "loop"
            /\ ret' = NoRet
            /\ offset' \in 0..(nServers(client) - 1)
    /\ i' = 0
    /\ resp' = NoResp
    /\ log' = <<>>
    /\ UNCHANGED <<client, ctor>>
    /\ UNCHANGED <<codecVars, cacheVars, consumerVars, producerVars>>

\* one iteration of the loop: build the request, send it, look at the answer
HttpCallAttempt ==
    /\ callPc = "loop"
    /\ LET url == TargetURL(client, i, offset) IN
       IF url = BadURL
       THEN /\ callPc' = "done"
            /\ ret' = Fail(NewRequestErr)
            /\ log' = Append(log, [ep |-> url, outcome |-> "unsent", status |-> 0,
                                   body |-> <<>>])
            /\ UNCHANGED <<i, resp, payload>>
       ELSE \E r \in Responses :
              /\ resp' = r
              /\ log' = Append(log, [ep |-> url,
                                     outcome |-> IF r.err # NoErr THEN "failed" ELSE "answered",
                                     status |-> r.status,
                                     body |-> payload.body])
              /\ \E left \in LeftBy(payload.body, r) :
                    payload' = [payload EXCEPT !.body = left]
              /\ IF ShouldRetry(client, i, r)
                 THEN /\ i' = i + 1
                      /\ UNCHANGED <<callPc, ret>>
                 ELSE /\ callPc' = "done"
                      /\ ret' = Finish(r)
                      /\ i' = i
    /\ UNCHANGED <<client, ctor, offset>>
    /\ UNCHANGED <<codecVars, cacheVars, consumerVars, producerVars>>

\* the caller takes the result; the client is ready for the next call
HttpCallReturn ==
    /\ callPc = "done"
    /\ ret.kind # "panic"
    /\ callPc' = "idle"
    /\ ret' = NoRet
    /\ resp' = NoResp
    /\ log' = <<>>
    /\ i' = 0
    /\ offset' = 0
    /\ payload' = NoPayload
    /\ UNCHANGED <<client, ctor>>
    /\ UNCHANGED <<codecVars, cacheVars, consumerVars, producerVars>>

NextTransport ==
    \/ HttpCallBegin
    \/ HttpCallAttempt
    \/ HttpCallReturn

----------------------------------------------------------------------------
(* SchemaRegistryClient operations, given what httpCall returned *)

NoCodec == "nil"

\* goavro.NewCodec accepts the two schema texts of the model and nothing else
NewCodecOk(text) == text \in {"X", "Y"}

NoRes == [err |-> NoErr, codec |-> NoCodec, id |-> 0]

\* the error of goavro.NewCodec is dropped
ClientGetSchema_Unparsed(r) ==
    IF r.kind # "ok" THEN [err |-> r.err, codec |-> NoCodec, id |-> 0]
    ELSE IF ~IsJsonObject(r.body) THEN [err |-> JsonErr, codec |-> NoCodec, id |-> 0]
    ELSE [err |-> NoErr,
          codec |-> IF NewCodecOk(SchemaField(r.body)) THEN SchemaField(r.body)
                    ELSE NoCodec,
          id |-> 0]

\* SchemaRegistryClient.GetSchema: parseSchema, then goavro.NewCodec
ClientGetSchema(r) ==
    IF r.kind # "ok" THEN [err |-> r.err, codec |-> NoCodec, id |-> 0]
    ELSE IF ~IsJsonObject(r.body) THEN [err |-> JsonErr, codec |-> NoCodec, id |-> 0]
    ELSE IF ~NewCodecOk(SchemaField(r.body)) THEN [err |-> CodecErr, codec |-> NoCodec, id |-> 0]
    ELSE [err |-> NoErr, codec |-> SchemaField(r.body), id |-> 0]

\* SchemaRegistryClient.CreateSubject: parseID of the response
ClientCreateSubject(r) ==
    IF r.kind # "ok" THEN [err |-> r.err, codec |-> NoCodec, id |-> 0]
    ELSE IF ~IsJsonObject(r.body) THEN [err |-> JsonErr, codec |-> NoCodec, id |-> 0]
    ELSE [err |-> NoErr, codec |-> NoCodec, id |-> IdField(r.body)]

----------------------------------------------------------------------------
(* The registry behind the caching client.  Schemas are immutable once     *)
(* registered: a success answer to a request carries the one body the      *)
(* registry has for it, or bytes that do not decode, or (for a schema) an  *)
(* object whose schema text does not parse; failures are free.             *)

CacheIds == {1, 2}
CacheSubjects == {"t1-value", "t2-value"}
CacheSchemas == {"X", "Y"}

GetSchemaOp(id) == [name |-> "GetSchema", id |-> id, subject |-> "", schema |-> ""]
CreateSubjectOp(subject, schema) ==
    [name |-> "CreateSubject", id |-> 0, subject |-> subject, schema |-> schema]
NoOp == [name |-> "none", id |-> 0, subject |-> "", schema |-> ""]

\* the operations the caching client forwards: one call of each, on the
\* first subject, its first version and the first schema
PassThroughNames ==
    {"GetSubjects", "GetVersions", "GetSchemaByVersion", "GetLatestSchema",
     "IsSchemaRegistered", "DeleteSubject", "DeleteVersion"}
PassThroughOp(name) ==
    [name |-> name,
     id |-> IF name \in {"GetSchemaByVersion", "DeleteVersion"} THEN 1 ELSE 0,
     subject |-> IF name = "GetSubjects" THEN "" ELSE "t1-value",
     schema |-> IF name = "IsSchemaRegistered" THEN "X" ELSE ""]

RegistryBody(op) ==
    IF op.name = "GetSchema" THEN (IF op.id = 1 THEN "S1" ELSE "S2")
    ELSE IF op.name \in {"GetSchemaByVersion", "GetLatestSchema"} THEN "S1"
    ELSE IF op.name \in {"GetSubjects", "GetVersions", "DeleteSubject", "DeleteVersion"}
    THEN "L1"
    ELSE (IF op.schema = "X" THEN "I1" ELSE "I2")

RegistryAnswers(op) ==
    {r \in Responses :
        \/ r.err.message = "timeout"
        \/ r.status = 500 /\ r.body = "E1"
        \/ r.status = 404 /\ r.body = "E2"
        \/ r.status = 200 /\ r.body \in {RegistryBody(op), "junk"}
        \/ r.status = 200 /\ r.body = "E1" /\ op.name = "GetSchema"}

----------------------------------------------------------------------------
(* CachedSchemaRegistryClient *)

Callers == 1..NumCallers

NoLock == [readers |-> {}, writer |-> 0]

\* no (subject, schema) pair has been registered
NoneRegistered == [sb \in CacheSubjects |-> [t \in CacheSchemas |-> FALSE]]

\* the last CreateSubject that returned, and the (subject, schema) pairs
\* that returned calls have registered with the registry
NoCreate == [subject |-> "", schema |-> "", ok |-> FALSE, id |-> 0, calls |-> 0,
             registered |-> NoneRegistered]

NoBefore == [seen |-> NoCodec, prev |-> NoCreate]

IdleCaller ==
    [pc |-> "idle", op |-> NoOp, cachedResult |-> NoCodec, cachedId |-> 0,
     found |-> FALSE, off |-> 0, k |-> 0, got |-> NoRes, res |-> NoRes,
     reqs |-> 0, calls |-> 0, wrote |-> FALSE, overlapped |-> FALSE,
     before |-> NoBefore]

\* the clients the caching constructors build in this specification
CacheClients ==
    {NewSchemaRegistryClient(<<"A">>),
     NewSchemaRegistryClientWithRetries(<<"A", "B">>, 0)}

\* NewCachedSchemaRegistryClient / NewCachedSchemaRegistryClientWithRetries
InitCache ==
    /\ client \in CacheClients
    /\ schemaCache = [id \in CacheIds |-> NoCodec]
    /\ schemaIdCache = [t \in CacheSchemas |-> [found |-> FALSE, id |-> 0]]
    /\ schemaCacheLock = NoLock
    /\ schemaIdCacheLock = NoLock
    /\ callers = [p \in Callers |-> IdleCaller]
    /\ invoked = 0
    /\ firstSchema = [id \in CacheIds |-> NoCodec]
    /\ lastCreate = NoCreate

CacheIdle ==
    /\ schemaCache = [id \in CacheIds |-> NoCodec]
    /\ schemaIdCache = [t \in CacheSchemas |-> [found |-> FALSE, id |-> 0]]
    /\ schemaCacheLock = NoLock
    /\ schemaIdCacheLock = NoLock
    /\ callers = [p \in Callers |-> IdleCaller]
    /\ invoked = 0
    /\ firstSchema = [id \in CacheIds |-> NoCodec]
    /\ lastCreate = NoCreate

\* sync.RWMutex: RLock waits for the writer and for any goroutine already
\* waiting in Lock; Lock waits for the readers and the writer
CanRLock(lock, waitPc) ==
    /\ lock.writer = 0
    /\ \A q \in Callers : callers[q].pc # waitPc

\* Lock that waits for the writer only
CanLock_WriterOnly(lock) == lock.writer = 0

CanLock(lock) == lock.writer = 0 /\ lock.readers = {}

CacheHit_Never(cachedResult) == FALSE

\* GetSchema: "if nil != cachedResult"
CacheHit(cachedResult) == cachedResult # NoCodec

IdHit_Never(found) == FALSE

\* CreateSubject: "if found"
IdHit(found) == found

FetchFailed_Never(got) == FALSE

\* GetSchema / CreateSubject: "if err != nil { return ..., err }" after the
\* call of the wrapped client
FetchFailed(got) == got.err # NoErr

cacheFrame == UNCHANGED <<codecVars, client, callVars, consumerVars, producerVars>>

\* the operation returns res after sending sent more requests; its locals
\* are gone, what stays is what the caller and the properties look at
Return(c, sent, res) ==
    [IdleCaller EXCEPT !.pc = "returned", !.op = c.op, !.res = res,
                       !.reqs = c.reqs + sent, !.calls = c.calls, !.wrote = c.wrote,
                       !.overlapped = c.overlapped, !.before = c.before]

\* SchemaRegistryClient.GetVersions and the other forwarded operations, given
\* what httpCall returned: the lists are unmarshalled into a slice, a schema
\* goes through goavro.NewCodec, an id through parseID, and the two deletions
\* do not look at the body
ClientPassThrough(op, r) ==
    IF op.name \in {"GetSubjects", "GetVersions"}
    THEN [err |-> IF r.kind # "ok" THEN r.err
                  ELSE IF r.body = "L1" THEN NoErr ELSE JsonErr,
          codec |-> NoCodec, id |-> 0]
    ELSE IF op.name \in {"GetSchemaByVersion", "GetLatestSchema"} THEN ClientGetSchema(r)
    ELSE IF op.name = "IsSchemaRegistered" THEN ClientCreateSubject(r)
    ELSE [err |-> r.err, codec |-> NoCodec, id |-> 0]

\* IsSchemaRegistered looks its codec up in (and stores into) the id cache
Entry_CachedLookup(op) ==
    IF op.name = "GetSchema" THEN "gs_rlock"
    ELSE IF op.name \in {"CreateSubject", "IsSchemaRegistered"} THEN "cs_rlock"
    ELSE "pt_call"

\* the first statement of each method of the caching client: GetSchema and
\* CreateSubject start with the read lock of their map, every other method
\* with the call of the wrapped client
Entry(op) ==
    IF op.name = "GetSchema" THEN "gs_rlock"
    ELSE IF op.name = "CreateSubject" THEN "cs_rlock"
    ELSE "pt_call"

\* a goroutine that is not inside an operation calls one of the methods in
\* ops
InvokeOneOf(p, ops) ==
    /\ callers[p].pc \in {"idle", "returned"}
    /\ invoked < MaxOps
    /\ invoked' = invoked + 1
    /\ \E op \in ops :
         callers' = [callers EXCEPT ![p] =
            [IdleCaller EXCEPT
               !.pc = Entry(op),
               !.op = op,
               !.before =
                  [seen |-> IF op.name = "GetSchema" THEN firstSchema[op.id] ELSE NoCodec,
                   prev |-> IF /\ op.name = "CreateSubject"
                               /\ lastCreate.subject = op.subject
                               /\ lastCreate.schema = op.schema
                            THEN [lastCreate EXCEPT !.registered = NoneRegistered]
                            ELSE NoCreate]]]
    /\ UNCHANGED <<schemaCache, schemaIdCache, schemaCacheLock, schemaIdCacheLock,
                   firstSchema, lastCreate>>
    /\ cacheFrame

\* the calls of the two cached operations
CachedOps ==
    {GetSchemaOp(id) : id \in CacheIds}
      \cup {CreateSubjectOp(sb, t) : sb \in CacheSubjects, t \in CacheSchemas}

\* the calls of the forwarded operations, and of the two cached operations on
\* the identifier and the schema the forwarded operations are about
AnyOps ==
    {PassThroughOp(name) : name \in PassThroughNames}
      \cup {GetSchemaOp(1), CreateSubjectOp("t1-value", "X")}

\* GetSchema(id) or CreateSubject(subject, codec) is called
Invoke(p) == InvokeOneOf(p, CachedOps)

\* any method of the caching client is called
InvokeAny(p) == InvokeOneOf(p, AnyOps)

\* ---- GetSchema ----

\* client.schemaCacheLock.RLock()
GetSchema_RLock(p) ==
    /\ callers[p].pc = "gs_rlock"
    /\ CanRLock(schemaCacheLock, "gs_lock")
    /\ schemaCacheLock' = [schemaCacheLock EXCEPT !.readers = @ \cup {p}]
    /\ callers' = [callers EXCEPT ![p].pc = "gs_read"]
    /\ UNCHANGED <<schemaCache, schemaIdCache, schemaIdCacheLock, invoked,
                   firstSchema, lastCreate>>
    /\ cacheFrame

\* cachedResult := client.schemaCache[id]
GetSchema_Read(p) ==
    /\ callers[p].pc = "gs_read"
    /\ callers' = [callers EXCEPT ![p].pc = "gs_runlock",
                                  ![p].cachedResult = schemaCache[callers[p].op.id]]
    /\ UNCHANGED <<schemaCache, schemaIdCache, schemaCacheLock, schemaIdCacheLock,
                   invoked, firstSchema, lastCreate>>
    /\ cacheFrame

\* the read lock is kept while the registry is asked
GetSchema_RUnlock_Held(p) ==
    /\ callers[p].pc = "gs_runlock"
    /\ IF CacheHit(callers[p].cachedResult)
       THEN /\ schemaCacheLock' = [schemaCacheLock EXCEPT !.readers = @ \ {p}]
            /\ callers' = [callers EXCEPT ![p] =
                  Return(callers[p], 0,
                         [err |-> NoErr, codec |-> callers[p].cachedResult, id |-> 0])]
            /\ firstSchema' = [firstSchema EXCEPT ![callers[p].op.id] =
                  IF @ = NoCodec THEN callers[p].cachedResult ELSE @]
       ELSE /\ \E off \in 0..(nServers(client) - 1) :
                 callers' = [callers EXCEPT
                    ![p].pc = "gs_fetch", ![p].off = off,
                    ![p].k = 0, ![p].calls = @ + 1]
            /\ UNCHANGED <<firstSchema, schemaCacheLock>>
    /\ UNCHANGED <<schemaCache, schemaIdCache, schemaIdCacheLock, invoked, lastCreate>>
    /\ cacheFrame

\* RUnlock(); a hit returns cachedResult, a miss enters
\* SchemaRegistryClient.GetSchema and httpCall draws its offset
GetSchema_RUnlock(p) ==
    /\ callers[p].pc = "gs_runlock"
    /\ schemaCacheLock' = [schemaCacheLock EXCEPT !.readers = @ \ {p}]
    /\ IF CacheHit(callers[p].cachedResult)
       THEN /\ callers' = [callers EXCEPT ![p] =
                  Return(callers[p], 0,
                         [err |-> NoErr, codec |-> callers[p].cachedResult, id |-> 0])]
            /\ firstSchema' = [firstSchema EXCEPT ![callers[p].op.id] =
                  IF @ = NoCodec THEN callers[p].cachedResult ELSE @]
       ELSE /\ \E off \in 0..(nServers(client) - 1) :
                 callers' = [callers EXCEPT
                    ![p].pc = "gs_fetch", ![p].off = off,
                    ![p].k = 0, ![p].calls = @ + 1,
                    ![p].overlapped =
                       \E q \in Callers \ {p} :
                          /\ callers[q].pc = "gs_fetch"
                          /\ callers[q].op.id = callers[p].op.id]
            /\ UNCHANGED firstSchema
    /\ UNCHANGED <<schemaCache, schemaIdCache, schemaIdCacheLock, invoked, lastCreate>>
    /\ cacheFrame

\* one iteration of httpCall inside SchemaRegistryClient.GetSchema; when the
\* loop ends the body is decoded, and an error is returned to the caller
GetSchema_Fetch(p) ==
    /\ callers[p].pc = "gs_fetch"
    /\ \E r \in RegistryAnswers(callers[p].op) :
         IF ShouldRetry(client, callers[p].k, r)
         THEN callers' = [callers EXCEPT ![p].k = @ + 1, ![p].reqs = @ + 1]
         ELSE LET got == ClientGetSchema(Finish(r)) IN
              IF FetchFailed(got)
              THEN callers' = [callers EXCEPT ![p] = Return(callers[p], 1, got)]
              ELSE callers' = [callers EXCEPT ![p].pc = "gs_lock", ![p].reqs = @ + 1,
                                              ![p].got = got, ![p].off = 0, ![p].k = 0]
    /\ UNCHANGED <<schemaCache, schemaIdCache, schemaCacheLock, schemaIdCacheLock,
                   invoked, firstSchema, lastCreate>>
    /\ cacheFrame

\* client.schemaCacheLock.Lock()
GetSchema_Lock(p) ==
    /\ callers[p].pc = "gs_lock"
    /\ CanLock(schemaCacheLock)
    /\ schemaCacheLock' = [schemaCacheLock EXCEPT !.writer = p]
    /\ callers' = [callers EXCEPT ![p].pc = "gs_write"]
    /\ UNCHANGED <<schemaCache, schemaIdCache, schemaIdCacheLock, invoked,
                   firstSchema, lastCreate>>
    /\ cacheFrame

\* the map is replaced by one that holds the new entry only
GetSchema_Write_Fresh(p) ==
    /\ callers[p].pc = "gs_write"
    /\ schemaCache' = [id \in CacheIds |->
          IF id = callers[p].op.id THEN callers[p].got.codec ELSE NoCodec]
    /\ callers' = [callers EXCEPT ![p].pc = "gs_unlock", ![p].wrote = TRUE]
    /\ UNCHANGED <<schemaIdCache, schemaCacheLock, schemaIdCacheLock, invoked,
                   firstSchema, lastCreate>>
    /\ cacheFrame

\* client.schemaCache[id] = codec
GetSchema_Write(p) ==
    /\ callers[p].pc = "gs_write"
    /\ schemaCache' = [schemaCache EXCEPT ![callers[p].op.id] = callers[p].got.codec]
    /\ callers' = [callers EXCEPT ![p].pc = "gs_unlock", ![p].wrote = TRUE]
    /\ UNCHANGED <<schemaIdCache, schemaCacheLock, schemaIdCacheLock, invoked,
                   firstSchema, lastCreate>>
    /\ cacheFrame

\* Unlock(); return codec, nil
GetSchema_Unlock(p) ==
    /\ callers[p].pc = "gs_unlock"
    /\ schemaCacheLock' = [schemaCacheLock EXCEPT !.writer = 0]
    /\ callers' = [callers EXCEPT ![p] = Return(callers[p], 0, callers[p].got)]
    /\ firstSchema' = [firstSchema EXCEPT ![callers[p].op.id] =
          IF @ = NoCodec THEN callers[p].got.codec ELSE @]
    /\ UNCHANGED <<schemaCache, schemaIdCache, schemaIdCacheLock, invoked, lastCreate>>
    /\ cacheFrame

\* ---- CreateSubject ----

Created(c, res) ==
    [subject |-> c.op.subject, schema |-> c.op.schema, ok |-> res.err = NoErr,
     id |-> res.id, calls |-> c.calls,
     registered |-> IF res.err = NoErr /\ c.calls > 0
                    THEN [lastCreate.registered EXCEPT ![c.op.subject][c.op.schema] = TRUE]
                    ELSE lastCreate.registered]

\* schemaJson := codec.Schema(); client.schemaIdCacheLock.RLock()
CreateSubject_RLock(p) ==
    /\ callers[p].pc = "cs_rlock"
    /\ CanRLock(schemaIdCacheLock, "cs_lock")
    /\ schemaIdCacheLock' = [schemaIdCacheLock EXCEPT !.readers = @ \cup {p}]
    /\ callers' = [callers EXCEPT ![p].pc = "cs_read"]
    /\ UNCHANGED <<schemaCache, schemaIdCache, schemaCacheLock, invoked,
                   firstSchema, lastCreate>>
    /\ cacheFrame

\* cachedResult, found := client.schemaIdCache[schemaJson]
CreateSubject_Read(p) ==
    /\ callers[p].pc = "cs_read"
    /\ callers' = [callers EXCEPT
          ![p].pc = "cs_runlock",
          ![p].cachedId = schemaIdCache[callers[p].op.schema].id,
          ![p].found = schemaIdCache[callers[p].op.schema].found]
    /\ UNCHANGED <<schemaCache, schemaIdCache, schemaCacheLock, schemaIdCacheLock,
                   invoked, firstSchema, lastCreate>>
    /\ cacheFrame

\* RUnlock(); a hit returns cachedResult, a miss enters
\* SchemaRegistryClient.CreateSubject and httpCall draws its offset
CreateSubject_RUnlock(p) ==
    /\ callers[p].pc = "cs_runlock"
    /\ schemaIdCacheLock' = [schemaIdCacheLock EXCEPT !.readers = @ \ {p}]
    /\ IF IdHit(callers[p].found)
       THEN LET res == [err |-> NoErr, codec |-> NoCodec, id |-> callers[p].cachedId] IN
            /\ callers' = [callers EXCEPT ![p] = Return(callers[p], 0, res)]
            /\ lastCreate' = Created(callers[p], res)
       ELSE /\ \E off \in 0..(nServers(client) - 1) :
                 callers' = [callers EXCEPT ![p].pc = "cs_fetch", ![p].off = off,
                                            ![p].k = 0, ![p].calls = @ + 1]
            /\ UNCHANGED lastCreate
    /\ UNCHANGED <<schemaCache, schemaIdCache, schemaCacheLock, invoked, firstSchema>>
    /\ cacheFrame

\* one iteration of httpCall inside SchemaRegistryClient.CreateSubject; when
\* the loop ends the id is parsed, and an error is returned as (0, err)
CreateSubject_Fetch(p) ==
    /\ callers[p].pc = "cs_fetch"
    /\ \E r \in RegistryAnswers(callers[p].op) :
         IF ShouldRetry(client, callers[p].k, r)
         THEN /\ callers' = [callers EXCEPT ![p].k = @ + 1, ![p].reqs = @ + 1]
              /\ UNCHANGED lastCreate
         ELSE LET got == ClientCreateSubject(Finish(r)) IN
              IF FetchFailed(got)
              THEN LET res == [err |-> got.err, codec |-> NoCodec, id |-> 0] IN
                   /\ callers' = [callers EXCEPT ![p] = Return(callers[p], 1, res)]
                   /\ lastCreate' = Created(callers[p], res)
              ELSE /\ callers' = [callers EXCEPT ![p].pc = "cs_lock", ![p].reqs = @ + 1,
                                                 ![p].got = got, ![p].off = 0, ![p].k = 0]
                   /\ UNCHANGED lastCreate
    /\ UNCHANGED <<schemaCache, schemaIdCache, schemaCacheLock, schemaIdCacheLock,
                   invoked, firstSchema>>
    /\ cacheFrame

\* client.schemaIdCacheLock.Lock()
CreateSubject_Lock(p) ==
    /\ callers[p].pc = "cs_lock"
    /\ CanLock(schemaIdCacheLock)
    /\ schemaIdCacheLock' = [schemaIdCacheLock EXCEPT !.writer = p]
    /\ callers' = [callers EXCEPT ![p].pc = "cs_write"]
    /\ UNCHANGED <<schemaCache, schemaIdCache, schemaCacheLock, invoked,
                   firstSchema, lastCreate>>
    /\ cacheFrame

\* client.schemaIdCache[schemaJson] = id
CreateSubject_Write(p) ==
    /\ callers[p].pc = "cs_write"
    /\ schemaIdCache' = [schemaIdCache EXCEPT ![callers[p].op.schema] =
          [found |-> TRUE, id |-> callers[p].got.id]]
    /\ callers' = [callers EXCEPT ![p].pc = "cs_unlock", ![p].wrote = TRUE]
    /\ UNCHANGED <<schemaCache, schemaCacheLock, schemaIdCacheLock, invoked,
                   firstSchema, lastCreate>>
    /\ cacheFrame

\* Unlock(); return id, nil
CreateSubject_Unlock(p) ==
    /\ callers[p].pc = "cs_unlock"
    /\ schemaIdCacheLock' = [schemaIdCacheLock EXCEPT !.writer = 0]
    /\ callers' = [callers EXCEPT ![p] = Return(callers[p], 0, callers[p].got)]
    /\ lastCreate' = Created(callers[p], callers[p].got)
    /\ UNCHANGED <<schemaCache, schemaIdCache, schemaCacheLock, invoked, firstSchema>>
    /\ cacheFrame

\* ---- the forwarded operations ----

\* "return client.SchemaRegistryClient.<operation>(...)": the wrapped client's
\* method is entered and httpCall draws its offset
PassThrough_Call(p) ==
    /\ callers[p].pc = "pt_call"
    /\ \E off \in 0..(nServers(client) - 1) :
         callers' = [callers EXCEPT ![p].pc = "pt_fetch", ![p].off = off,
                                    ![p].k = 0, ![p].calls = @ + 1]
    /\ UNCHANGED <<schemaCache, schemaIdCache, schemaCacheLock, schemaIdCacheLock,
                   invoked, firstSchema, lastCreate>>
    /\ cacheFrame

\* one iteration of httpCall inside the wrapped client's method; when the
\* loop ends the method's result is returned as it is
PassThrough_Fetch(p) ==
    /\ callers[p].pc = "pt_fetch"
    /\ \E r \in RegistryAnswers(callers[p].op) :
         IF ShouldRetry(client, callers[p].k, r)
         THEN callers' = [callers EXCEPT ![p].k = @ + 1, ![p].reqs = @ + 1]
         ELSE callers' = [callers EXCEPT ![p] =
                 Return(callers[p], 1, ClientPassThrough(callers[p].op, Finish(r)))]
    /\ UNCHANGED <<schemaCache, schemaIdCache, schemaCacheLock, schemaIdCacheLock,
                   invoked, firstSchema, lastCreate>>
    /\ cacheFrame

NextCache ==
    \/ \E p \in Callers : Invoke(p)
    \/ \E p \in Callers : GetSchema_RLock(p)
    \/ \E p \in Callers : GetSchema_Read(p)
    \/ \E p \in Callers : GetSchema_RUnlock(p)
    \/ \E p \in Callers : GetSchema_Fetch(p)
    \/ \E p \in Callers : GetSchema_Lock(p)
    \/ \E p \in Callers : GetSchema_Write(p)
    \/ \E p \in Callers : GetSchema_Unlock(p)
    \/ \E p \in Callers : CreateSubject_RLock(p)
    \/ \E p \in Callers : CreateSubject_Read(p)
    \/ \E p \in Callers : CreateSubject_RUnlock(p)
    \/ \E p \in Callers : CreateSubject_Fetch(p)
    \/ \E p \in Callers : CreateSubject_Lock(p)
    \/ \E p \in Callers : CreateSubject_Write(p)
    \/ \E p \in Callers : CreateSubject_Unlock(p)

\* the statement caller p is at, for a caller inside GetSchema or CreateSubject
CallerStep(p) ==
    \/ GetSchema_RLock(p)
    \/ GetSchema_Read(p)
    \/ GetSchema_RUnlock(p)
    \/ GetSchema_Fetch(p)
    \/ GetSchema_Lock(p)
    \/ GetSchema_Write(p)
    \/ GetSchema_Unlock(p)
    \/ CreateSubject_RLock(p)
    \/ CreateSubject_Read(p)
    \/ CreateSubject_RUnlock(p)
    \/ CreateSubject_Fetch(p)
    \/ CreateSubject_Lock(p)
    \/ CreateSubject_Write(p)
    \/ CreateSubject_Unlock(p)

\* the whole caching client: the forwarded operations next to the cached ones
NextForwarding ==
    \/ \E p \in Callers : InvokeAny(p)
    \/ \E p \in Callers : GetSchema_RLock(p)
    \/ \E p \in Callers : GetSchema_Read(p)
    \/ \E p \in Callers : GetSchema_RUnlock(p)
    \/ \E p \in Callers : GetSchema_Fetch(p)
    \/ \E p \in Callers : GetSchema_Lock(p)
    \/ \E p \in Callers : GetSchema_Write(p)
    \/ \E p \in Callers : GetSchema_Unlock(p)
    \/ \E p \in Callers : CreateSubject_RLock(p)
    \/ \E p \in Callers : CreateSubject_Read(p)
    \/ \E p \in Callers : CreateSubject_RUnlock(p)
    \/ \E p \in Callers : CreateSubject_Fetch(p)
    \/ \E p \in Callers : CreateSubject_Lock(p)
    \/ \E p \in Callers : CreateSubject_Write(p)
    \/ \E p \in Callers : CreateSubject_Unlock(p)
    \/ \E p \in Callers : PassThrough_Call(p)
    \/ \E p \in Callers : PassThrough_Fetch(p)

----------------------------------------------------------------------------
(* avroConsumer: the bus side.  The cluster consumer exposes three         *)
(* channels; Close() closes them.  What is already buffered stays readable.*)

ConsumerValue == Encode([SchemaID |-> W(0, 1), Content |-> <<1>>])

\* values the bus can carry: one framed by the producer, one too short
BusValues == {ConsumerValue, <<0, 0, 0>>}

NoBusRecord == [Offset |-> 0, Value |-> <<>>, Spare |-> <<>>]

\* Message{}: the zero value ProcessAvroMsg returns with an error
ZeroMessage == [Offset |-> 0, SchemaId |-> W(0, 0), Payload |-> <<>>]

Ev(ev, src, n, arg) == [ev |-> ev, src |-> src, n |-> n, arg |-> arg]

AllHooks == [OnDataReceived : BOOLEAN, OnError : BOOLEAN, OnNotification : BOOLEAN]

IdleLoop == [pc |-> "idle", m |-> NoBusRecord, msg |-> ZeroMessage,
             failed |-> FALSE, todo |-> <<>>]

IdleListener == [pc |-> "off", n |-> 0]

\* NewAvroConsumer: the consumer is built, Consume() has not been called
InitConsumer ==
    /\ callbacks \in AllHooks
    /\ messages = <<>>
    /\ errors = <<>>
    /\ notifications = <<>>
    /\ signals = 0
    /\ closed = FALSE
    /\ published = [records |-> 0, errors |-> 0, notifications |-> 0]
    /\ loop = IdleLoop
    /\ errListener = IdleListener
    /\ notifListener = IdleListener
    /\ trace = <<>>

ConsumerIdle ==
    /\ callbacks = [OnDataReceived |-> FALSE, OnError |-> FALSE, OnNotification |-> FALSE]
    /\ messages = <<>>
    /\ errors = <<>>
    /\ notifications = <<>>
    /\ signals = 0
    /\ closed = FALSE
    /\ published = [records |-> 0, errors |-> 0, notifications |-> 0]
    /\ loop = IdleLoop
    /\ errListener = IdleListener
    /\ notifListener = IdleListener
    /\ trace = <<>>

consumerFrame == UNCHANGED <<codecVars, transportVars, cacheVars, producerVars>>

\* a panic in the receive loop is not recovered: the process is gone
Alive == loop.pc # "panicked"

\* the bus puts the next record of the partition on Messages()
BusMessage ==
    /\ Alive /\ ~closed
    /\ published.records < MaxRecords
    /\ \E v \in BusValues :
         messages' = Append(messages, [Offset |-> published.records + 1,
                                       Value |-> v, Spare |-> <<>>])
    /\ published' = [published EXCEPT !.records = @ + 1]
    /\ UNCHANGED <<callbacks, errors, notifications, signals, closed, loop,
                   errListener, notifListener, trace>>
    /\ consumerFrame

\* the bus publishes an error on Errors()
BusError ==
    /\ Alive /\ ~closed
    /\ published.errors < MaxBusErrors
    /\ errors' = Append(errors, published.errors + 1)
    /\ published' = [published EXCEPT !.errors = @ + 1]
    /\ UNCHANGED <<callbacks, messages, notifications, signals, closed, loop,
                   errListener, notifListener, trace>>
    /\ consumerFrame

\* the bus publishes a rebalance notification on Notifications()
BusNotification ==
    /\ Alive /\ ~closed
    /\ published.notifications < MaxNotifications
    /\ notifications' = Append(notifications, published.notifications + 1)
    /\ published' = [published EXCEPT !.notifications = @ + 1]
    /\ UNCHANGED <<callbacks, messages, errors, signals, closed, loop,
                   errListener, notifListener, trace>>
    /\ consumerFrame

\* SIGINT arrives after signal.Notify: the channel holds one signal, a
\* second one while it is full is dropped
Interrupt ==
    /\ loop.pc \notin {"idle", "exited", "panicked"}
    /\ signals = 0
    /\ signals' = 1
    /\ UNCHANGED <<callbacks, messages, errors, notifications, closed, published,
                   loop, errListener, notifListener, trace>>
    /\ consumerFrame

\* avroConsumer.Close(), called by the host application
Close ==
    /\ Alive /\ ~closed
    /\ closed' = TRUE
    /\ UNCHANGED <<callbacks, messages, errors, notifications, signals, published,
                   loop, errListener, notifListener, trace>>
    /\ consumerFrame

----------------------------------------------------------------------------
(* avroConsumer.Consume *)

\* the statements of the loop body after ProcessAvroMsg returned, in
\* program order: "if err != nil { OnError }", MarkOffset, OnDataReceived
Body_MarkFirst(failed) ==
    <<"MarkOffset">> \o (IF failed THEN <<"OnError">> ELSE <<>>) \o <<"OnDataReceived">>

Body_NotifyFirst(failed) ==
    (IF failed THEN <<"OnError">> ELSE <<>>) \o <<"OnDataReceived", "MarkOffset">>

Body(failed) ==
    (IF failed THEN <<"OnError">> ELSE <<>>) \o <<"MarkOffset", "OnDataReceived">>

\* where the loop is once the statements in todo remain
After(todo) == IF todo = <<>> THEN "select" ELSE "body"

\* Consume() up to the loop: signal.Notify and the two listeners
Consume ==
    /\ loop.pc = "idle"
    /\ loop' = [loop EXCEPT !.pc = "select"]
    /\ errListener' = [pc |-> "range", n |-> 0]
    /\ notifListener' = [pc |-> "range", n |-> 0]
    /\ UNCHANGED <<callbacks, messages, errors, notifications, signals, closed,
                   published, trace>>
    /\ consumerFrame

\* a select that returns when Messages() is closed
LoopSelect_ReturnOnClose ==
    /\ loop.pc = "select"
    /\ \/ /\ messages # <<>>
          /\ messages' = Tail(messages)
          /\ loop' = [loop EXCEPT !.pc = "process", !.m = Head(messages)]
          /\ trace' = Append(trace, Ev("receive", "loop", Head(messages).Offset, 0))
          /\ UNCHANGED signals
       \/ /\ messages = <<>> /\ closed
          /\ loop' = [loop EXCEPT !.pc = "exited"]
          /\ UNCHANGED <<messages, trace, signals>>
       \/ /\ signals = 1
          /\ signals' = 0
          /\ loop' = [loop EXCEPT !.pc = "exited"]
          /\ UNCHANGED <<messages, trace>>
    /\ UNCHANGED <<callbacks, errors, notifications, closed, published,
                   errListener, notifListener>>
    /\ consumerFrame

\* the select: any ready case may be chosen.  Messages() is ready when a
\* record is buffered or the channel is closed (ok = false: nothing is
\* done); signals is ready when a signal is pending
LoopSelect ==
    /\ loop.pc = "select"
    /\ \/ /\ messages # <<>>
          /\ messages' = Tail(messages)
          /\ loop' = [loop EXCEPT !.pc = "process", !.m = Head(messages)]
          /\ trace' = Append(trace, Ev("receive", "loop", Head(messages).Offset, 0))
          /\ UNCHANGED signals
       \/ /\ messages = <<>> /\ closed
          /\ UNCHANGED <<messages, loop, trace, signals>>
       \/ /\ signals = 1
          /\ signals' = 0
          /\ loop' = [loop EXCEPT !.pc = "exited"]
          /\ UNCHANGED <<messages, trace>>
    /\ UNCHANGED <<callbacks, errors, notifications, closed, published,
                   errListener, notifListener>>
    /\ consumerFrame

\* msg, err := ac.ProcessAvroMsg(m)
LoopProcessAvroMsg ==
    /\ loop.pc = "process"
    /\ \E getSchemaOk \in BOOLEAN, decodeOk \in BOOLEAN :
         LET o == ProcessAvroMsg(loop.m, getSchemaOk, decodeOk) IN
         IF o.kind = "panic"
         THEN /\ loop' = [loop EXCEPT !.pc = "panicked"]
              /\ UNCHANGED trace
         ELSE /\ loop' = [loop EXCEPT
                    !.pc = "body",
                    !.failed = (o.kind = "error"),
                    !.msg = IF o.kind = "ok"
                            THEN [Offset |-> loop.m.Offset, SchemaId |-> o.msg.SchemaId,
                                  Payload |-> o.msg.Payload]
                            ELSE ZeroMessage,
                    !.todo = Body(o.kind = "error")]
              /\ trace' = IF o.kind = "error"
                          THEN Append(trace, Ev("failed", "loop", loop.m.Offset, 0))
                          ELSE trace
    /\ UNCHANGED <<callbacks, messages, errors, notifications, signals, closed,
                   published, errListener, notifListener>>
    /\ consumerFrame

\* the next statement of the body.  OnError is called without a nil check,
\* OnDataReceived behind one
LoopStatement ==
    /\ loop.pc = "body"
    /\ LET st == Head(loop.todo)
           rest == Tail(loop.todo) IN
       CASE st = "OnError" ->
              IF callbacks.OnError
              THEN /\ loop' = [loop EXCEPT !.pc = "inOnError", !.todo = rest]
                   /\ trace' = Append(trace, Ev("OnError", "loop", loop.m.Offset, 0))
              ELSE /\ loop' = [loop EXCEPT !.pc = "panicked"]
                   /\ UNCHANGED trace
         [] st = "MarkOffset" ->
              /\ loop' = [loop EXCEPT !.pc = After(rest), !.todo = rest]
              /\ trace' = Append(trace, Ev("MarkOffset", "loop", loop.m.Offset, 0))
         [] st = "OnDataReceived" ->
              IF callbacks.OnDataReceived
              THEN /\ loop' = [loop EXCEPT !.pc = "inOnDataReceived", !.todo = rest]
                   /\ trace' = Append(trace, Ev("OnDataReceived", "loop", loop.m.Offset,
                                                loop.msg.Offset))
              ELSE /\ loop' = [loop EXCEPT !.pc = After(rest), !.todo = rest]
                   /\ UNCHANGED trace
    /\ UNCHANGED <<callbacks, messages, errors, notifications, signals, closed,
                   published, errListener, notifListener>>
    /\ consumerFrame

\* the hook the loop called returns
LoopCallbackReturn ==
    /\ loop.pc \in {"inOnError", "inOnDataReceived"}
    /\ loop' = [loop EXCEPT !.pc = After(loop.todo)]
    /\ UNCHANGED <<callbacks, messages, errors, notifications, signals, closed,
                   published, errListener, notifListener, trace>>
    /\ consumerFrame

\* a listener that takes no error while the receive loop is inside a hook
ErrListenerReceive_Serialized ==
    /\ Alive
    /\ errListener.pc = "range"
    /\ loop.pc \notin {"inOnError", "inOnDataReceived"}
    /\ errors # <<>>
    /\ errors' = Tail(errors)
    /\ IF callbacks.OnError
       THEN /\ errListener' = [pc |-> "inOnError", n |-> Head(errors)]
            /\ trace' = trace \o <<Ev("receive", "errors", Head(errors), 0),
                                   Ev("OnError", "errors", Head(errors), 0)>>
       ELSE /\ errListener' = [pc |-> "range", n |-> 0]
            /\ trace' = Append(trace, Ev("receive", "errors", Head(errors), 0))
    /\ UNCHANGED <<callbacks, messages, notifications, signals, closed, published,
                   loop, notifListener>>
    /\ consumerFrame

\* for err := range ac.Consumer.Errors(): OnError behind a nil check
ErrListenerReceive ==
    /\ Alive
    /\ errListener.pc = "range"
    /\ errors # <<>>
    /\ errors' = Tail(errors)
    /\ IF callbacks.OnError
       THEN /\ errListener' = [pc |-> "inOnError", n |-> Head(errors)]
            /\ trace' = trace \o <<Ev("receive", "errors", Head(errors), 0),
                                   Ev("OnError", "errors", Head(errors), 0)>>
       ELSE /\ errListener' = [pc |-> "range", n |-> 0]
            /\ trace' = Append(trace, Ev("receive", "errors", Head(errors), 0))
    /\ UNCHANGED <<callbacks, messages, notifications, signals, closed, published,
                   loop, notifListener>>
    /\ consumerFrame

ErrListenerReturn ==
    /\ Alive
    /\ errListener.pc = "inOnError"
    /\ errListener' = [pc |-> "range", n |-> 0]
    /\ UNCHANGED <<callbacks, messages, errors, notifications, signals, closed,
                   published, loop, notifListener, trace>>
    /\ consumerFrame

\* the range ends when Errors() is closed and drained
ErrListenerEnd ==
    /\ Alive
    /\ errListener.pc = "range"
    /\ errors = <<>> /\ closed
    /\ errListener' = [pc |-> "ended", n |-> 0]
    /\ UNCHANGED <<callbacks, messages, errors, notifications, signals, closed,
                   published, loop, notifListener, trace>>
    /\ consumerFrame

\* for notification := range ac.Consumer.Notifications()
NotifListenerReceive ==
    /\ Alive
    /\ notifListener.pc = "range"
    /\ notifications # <<>>
    /\ notifications' = Tail(notifications)
    /\ IF callbacks.OnNotification
       THEN /\ notifListener' = [pc |-> "inOnNotification", n |-> Head(notifications)]
            /\ trace' = trace \o <<Ev("receive", "notifications", Head(notifications), 0),
                                   Ev("OnNotification", "notifications",
                                      Head(notifications), 0)>>
       ELSE /\ notifListener' = [pc |-> "range", n |-> 0]
            /\ trace' = Append(trace, Ev("receive", "notifications",
                                         Head(notifications), 0))
    /\ UNCHANGED <<callbacks, messages, errors, signals, closed, published,
                   loop, errListener>>
    /\ consumerFrame

NotifListenerReturn ==
    /\ Alive
    /\ notifListener.pc = "inOnNotification"
    /\ notifListener' = [pc |-> "range", n |-> 0]
    /\ UNCHANGED <<callbacks, messages, errors, notifications, signals, closed,
                   published, loop, errListener, trace>>
    /\ consumerFrame

NotifListenerEnd ==
    /\ Alive
    /\ notifListener.pc = "range"
    /\ notifications = <<>> /\ closed
    /\ notifListener' = [pc |-> "ended", n |-> 0]
    /\ UNCHANGED <<callbacks, messages, errors, notifications, signals, closed,
                   published, loop, errListener, trace>>
    /\ consumerFrame

NextConsumer ==
    \/ BusMessage
    \/ BusError
    \/ BusNotification
    \/ Interrupt
    \/ Close
    \/ Consume
    \/ LoopSelect
    \/ LoopProcessAvroMsg
    \/ LoopStatement
    \/ LoopCallbackReturn
    \/ ErrListenerReceive
    \/ ErrListenerReturn
    \/ ErrListenerEnd
    \/ NotifListenerReceive
    \/ NotifListenerReturn
    \/ NotifListenerEnd

----------------------------------------------------------------------------
(* AvroProducer.  Error texts are sequences of tokens, the nil error is    *)
(* the empty sequence; strings.Contains is containment of a token run.     *)

NilError == <<>>

Contains(text, sub) ==
    \E k \in 0..(Len(text) - Len(sub)) : SubSeq(text, k + 1, k + Len(sub)) = sub

Topics == {"t1", "t2"}

\* fmt.Sprintf("%s-value", topic)
ValueSubject(topic) == topic \o "-value"

\* fmt.Sprintf("Subject '%s-value' not found", topic)
NotFoundText(topic) == <<"Subject '", ValueSubject(topic), "' not found">>

\* what the registry client can answer to GetLatestSchema(topic, false)
LookupErrors ==
    {<<"404 Not Found: ">> \o NotFoundText(t) \o <<".">> : t \in Topics}
      \cup {<<"404 Not Found: ", "Subject '", "t1-key", "' not found", ".">>,
            <<"timeout">>}

Answer(id, err) == [id |-> id, err |-> err]

LookupOutcomes == {Answer(id, NilError) : id \in CacheIds}
                    \cup {Answer(0, e) : e \in LookupErrors}

\* what CreateSchema / CreateSubject can answer
CreateOutcomes == {Answer(id, NilError) : id \in CacheIds}
                    \cup {Answer(0, <<"409 Conflict">>), Answer(0, <<"timeout">>)}

ConvertErr == <<"cannot decode textual">>
EncodeErr == <<"cannot encode binary">>
SendErr == <<"kafka: send failed">>

NoProducerMessage == [Topic |-> "", Key |-> "", Value |-> [SchemaID |-> W(0, 0), Content |-> <<>>]]

Returned(kind, id, err, registrations, sends, msg) ==
    [kind |-> kind, id |-> id, err |-> err, registrations |-> registrations,
     sends |-> sends, msg |-> msg]

NoPret == Returned("none", 0, NilError, 0, 0, NoProducerMessage)

ShouldRegister_AnyError(err, topic, schema) == schema # ""

\* GetSchemaID: "!strings.Contains(err.Error(), notFoundText) || schema == """
\* returns the lookup error; otherwise the schema is registered
ShouldRegister(err, topic, schema) ==
    ~(~Contains(err, NotFoundText(topic)) \/ schema = "")

\* AvroProducer.GetSchemaID(topic, schema).  A failed CreateSchema yields a
\* nil schema object, and ID() is called on it before err is looked at
GetSchemaID(topic, schema, lookup, create) ==
    IF lookup.err = NilError
    THEN Returned("ok", lookup.id, NilError, 0, 0, NoProducerMessage)
    ELSE IF ~ShouldRegister(lookup.err, topic, schema)
    THEN Returned("error", -1, lookup.err, 0, 0, NoProducerMessage)
    ELSE IF create.err # NilError
    THEN Returned("panic", 0, NilError, 1, 0, NoProducerMessage)
    ELSE Returned("ok", create.id, NilError, 1, 0, NoProducerMessage)

\* the Avro binary form of a textual value: a one-byte and a two-byte datum,
\* neither a prefix of the other
Binary(value) == IF value = "v1" THEN <<1>> ELSE <<255, 1>>

Prepared(err, msg) == [err |-> err, msg |-> msg]

PrepareMessage_IgnoreErrors(codec, topic, schemaID, key, value, textualOk, binaryOk) ==
    Prepared(NilError,
             [Topic |-> topic, Key |-> key,
              Value |-> [SchemaID |-> W(0, schemaID), Content |-> Binary(value)]])

\* AvroProducer.PrepareMessage: textualOk and binaryOk are the outcomes of
\* codec.NativeFromTextual and codec.BinaryFromNative
PrepareMessage(codec, topic, schemaID, key, value, textualOk, binaryOk) ==
    IF ~textualOk THEN Prepared(ConvertErr, NoProducerMessage)
    ELSE IF ~binaryOk THEN Prepared(EncodeErr, NoProducerMessage)
    ELSE Prepared(NilError,
                  [Topic |-> topic, Key |-> key,
                   Value |-> [SchemaID |-> W(0, schemaID), Content |-> Binary(value)]])

\* AvroProducer.SendMessages: one call of the bus producer, its error returned
SendMessages(msg, sendOk) == IF sendOk THEN NilError ELSE SendErr

\* AvroProducer.Add(codec, topic, schemaID, key, value)
Add(codec, topic, schemaID, key, value, textualOk, binaryOk, sendOk) ==
    LET p == PrepareMessage(codec, topic, schemaID, key, value, textualOk, binaryOk) IN
    IF p.err # NilError
    THEN Returned("error", 0, p.err, 0, 0, NoProducerMessage)
    ELSE LET err == SendMessages(p.msg, sendOk) IN
         Returned(IF err = NilError THEN "ok" ELSE "error", 0, err, 0, 1, p.msg)

\* goavro.NewCodec(schema): nil with an error for text that does not parse
NewCodec(schema) == IF NewCodecOk(schema) THEN schema ELSE NoCodec

\* CachedSchemaRegistryClient.CreateSubject begins with codec.Schema(),
\* which dereferences the codec
CodecSchemaPanics(codec) == codec = NoCodec

\* the earlier AvroProducer.GetSchemaId(topic, avroCodec)
GetSchemaId(topic, avroCodec, create) ==
    IF CodecSchemaPanics(avroCodec) THEN [kind |-> "panic", id |-> 0, err |-> NilError]
    ELSE IF create.err # NilError THEN [kind |-> "error", id |-> 0, err |-> create.err]
    ELSE [kind |-> "ok", id |-> create.id, err |-> NilError]

\* the earlier AvroProducer.Add(topic, schema, key, value): the error of
\* NewCodec is overwritten by the next assignment to err
Add_v1(topic, schema, key, value, create, textualOk, binaryOk, sendOk) ==
    LET avroCodec == NewCodec(schema)
        got == GetSchemaId(topic, avroCodec, create) IN
    IF got.kind = "panic" THEN Returned("panic", 0, NilError, 0, 0, NoProducerMessage)
    ELSE IF got.err # NilError THEN Returned("error", 0, got.err, 1, 0, NoProducerMessage)
    ELSE IF ~textualOk THEN Returned("error", got.id, ConvertErr, 1, 0, NoProducerMessage)
    ELSE IF ~binaryOk THEN Returned("error", got.id, EncodeErr, 1, 0, NoProducerMessage)
    ELSE LET msg == [Topic |-> topic, Key |-> key,
                     Value |-> [SchemaID |-> W(0, got.id), Content |-> Binary(value)]]
             err == IF sendOk THEN NilError ELSE SendErr IN
         Returned(IF err = NilError THEN "ok" ELSE "error", got.id, err, 1, 1, msg)

----------------------------------------------------------------------------
(* Producer specification: one operation at a time, with the outcomes of   *)
(* the registry client, the Avro engine and the bus producer as inputs     *)

ProducerSchemas == {"", "X", "not avro"}
ProducerValues == {"v1", "v2"}
ProducerKeys == {"k"}

Call(op, topic, schema, value, lookup, create, textualOk, binaryOk, sendOk) ==
    [op |-> op, topic |-> topic, schema |-> schema, value |-> value,
     lookup |-> lookup, create |-> create, textualOk |-> textualOk,
     binaryOk |-> binaryOk, sendOk |-> sendOk]

NoCall == Call("none", "", "", "", Answer(0, NilError), Answer(0, NilError),
               TRUE, TRUE, TRUE)

InitProducer ==
    /\ pcall = NoCall
    /\ pret = NoPret

ProducerIdle ==
    /\ pcall = NoCall
    /\ pret = NoPret

producerFrame == UNCHANGED <<codecVars, transportVars, cacheVars, consumerVars>>

DoGetSchemaID ==
    /\ pcall.op = "none"
    /\ \E topic \in Topics, schema \in ProducerSchemas,
          lookup \in LookupOutcomes, create \in CreateOutcomes :
         /\ pcall' = Call("GetSchemaID", topic, schema, "", lookup, create,
                          TRUE, TRUE, TRUE)
         /\ pret' = GetSchemaID(topic, schema, lookup, create)
    /\ producerFrame

DoAdd ==
    /\ pcall.op = "none"
    /\ \E topic \in Topics, id \in CacheIds, key \in ProducerKeys,
          value \in ProducerValues,
          textualOk \in BOOLEAN, binaryOk \in BOOLEAN, sendOk \in BOOLEAN :
         /\ pcall' = Call("Add", topic, "X", value, Answer(id, NilError),
                          Answer(0, NilError), textualOk, binaryOk, sendOk)
         /\ pret' = Add("X", topic, id, key, value, textualOk, binaryOk, sendOk)
    /\ producerFrame

DoAdd_v1 ==
    /\ pcall.op = "none"
    /\ \E topic \in Topics, schema \in ProducerSchemas, key \in ProducerKeys,
          value \in ProducerValues, create \in CreateOutcomes,
          textualOk \in BOOLEAN, binaryOk \in BOOLEAN, sendOk \in BOOLEAN :
         /\ pcall' = Call("Add_v1", topic, schema, value, Answer(0, NilError),
                          create, textualOk, binaryOk, sendOk)
         /\ pret' = Add_v1(topic, schema, key, value, create,
                           textualOk, binaryOk, sendOk)
    /\ producerFrame

\* the caller takes the result (a panic is not returned from); the
\* arguments of the call stay as they were
ProducerReturn ==
    /\ pcall.op # "none"
    /\ pret.kind # "panic"
    /\ pcall' = [pcall EXCEPT !.op = "none"]
    /\ pret' = NoPret
    /\ producerFrame

NextProducer ==
    \/ DoGetSchemaID
    \/ DoAdd
    \/ DoAdd_v1
    \/ ProducerReturn

----------------------------------------------------------------------------
(* From the producer to the consumer: the bus turns a sent ProducerMessage *)
(* into a ConsumerMessage, and ProcessAvroMsg turns that into a Message    *)

\* codec.NativeFromBinary: reads one datum from the front of the bytes and
\* leaves what follows unread (the second result, which ProcessAvroMsg drops)
NativeFromBinary(content) ==
    IF Len(content) >= 1 /\ content[1] = 1 THEN [ok |-> TRUE, native |-> 1]
    ELSE IF Len(content) >= 2 /\ content[1] = 255 /\ content[2] = 1
    THEN [ok |-> TRUE, native |-> 2]
    ELSE [ok |-> FALSE, native |-> 0]

\* codec.TextualFromNative
TextualFromNative(native) == IF native = 1 THEN "v1" ELSE "v2"

\* a message the producer did not send
NotSent == [framed |-> FALSE, v |-> "", i |-> NoId]

\* the sarama.ConsumerMessage of a ProducerMessage: topic and key as sent,
\* value as AvroEncoder.Encode frames it, partition and offset from the bus;
\* sent remembers what the producer was given
ConsumerMessage(msg, partition, at, spare, sent) ==
    [Topic |-> msg.Topic, Partition |-> partition, Offset |-> at,
     Key |-> msg.Key, Value |-> Encode(msg.Value), Spare |-> spare, sent |-> sent]

ZeroValue == [SchemaId |-> W(0, 0), Topic |-> "", Partition |-> 0, Offset |-> 0,
              Key |-> "", Value |-> ""]

\* topic and key change places
MessageOf_KeyFirst(m, schemaId, textual) ==
    [SchemaId |-> schemaId, Topic |-> m.Key, Partition |-> m.Partition,
     Offset |-> m.Offset, Key |-> m.Topic, Value |-> textual]

\* Message{int(schemaId), m.Topic, m.Partition, m.Offset, string(m.Key),
\* string(textual)}
MessageOf(m, schemaId, textual) ==
    [SchemaId |-> schemaId, Topic |-> m.Topic, Partition |-> m.Partition,
     Offset |-> m.Offset, Key |-> m.Key, Value |-> textual]

\* avroConsumer.ProcessAvroMsg with the codec the producer encoded with: the
\* envelope is read as in ProcessAvroMsg above, then the payload goes through
\* NativeFromBinary and TextualFromNative into the Message
ProcessRecord(m, getSchemaOk, textualOk) ==
    LET content == IF SlicePanics(m, 5, Len(m.Value)) THEN <<>>
                   ELSE Slice(m, 5, Len(m.Value))
        read == NativeFromBinary(content)
        r == ProcessAvroMsg(m, getSchemaOk, read.ok) IN
    IF r.kind # "ok" THEN [r EXCEPT !.msg = ZeroValue]
    ELSE IF ~textualOk
    THEN [kind |-> "error", at |-> "TextualFromNative", asked |-> r.asked,
          msg |-> ZeroValue]
    ELSE [r EXCEPT !.msg = MessageOf(m, r.msg.SchemaId, TextualFromNative(read.native))]

\* what the bus assigns, and records framed by other producers
Partitions == {0, 1}
RecordOffsets == {1, 7}
ForeignIds == {W(0, 0), W(1, 0), W(65535, 65535)}
ForeignContents == {<<>>, <<255>>, <<1, 0>>}

\* the bus delivers the message Add has sent, or one of another producer
PipelineDeliver ==
    /\ rec = NoRecord
    /\ \E partition \in Partitions, at \in RecordOffsets, spare \in {<<>>, <<0, 0>>} :
         \/ /\ pret.kind = "ok"
            /\ pret.sends = 1
            /\ rec' = ConsumerMessage(pret.msg, partition, at, spare,
                          [framed |-> TRUE, v |-> pcall.value,
                           i |-> pret.msg.Value.SchemaID])
         \/ \E topic \in Topics, id \in ForeignIds, content \in ForeignContents :
              rec' = ConsumerMessage(
                        [Topic |-> topic, Key |-> "",
                         Value |-> [SchemaID |-> id, Content |-> content]],
                        partition, at, spare, NotSent)
    /\ UNCHANGED <<enc, wire, out, producerVars>>
    /\ UNCHANGED <<transportVars, cacheVars, consumerVars>>

\* the consumer processes the record
PipelineProcess ==
    /\ rec # NoRecord
    /\ out = NoOutcome
    /\ \E getSchemaOk \in BOOLEAN, textualOk \in BOOLEAN :
         out' = ProcessRecord(rec, getSchemaOk, textualOk)
    /\ UNCHANGED <<enc, wire, rec, producerVars>>
    /\ UNCHANGED <<transportVars, cacheVars, consumerVars>>

\* the next record
PipelineNext ==
    /\ out # NoOutcome
    /\ rec' = NoRecord
    /\ out' = NoOutcome
    /\ UNCHANGED <<enc, wire, producerVars>>
    /\ UNCHANGED <<transportVars, cacheVars, consumerVars>>

\* the producer goes on once the consumer has dealt with the record
PipelineAdd == rec = NoRecord /\ DoAdd
PipelineAdd_v1 == rec = NoRecord /\ DoAdd_v1
PipelineReturn == rec = NoRecord /\ ProducerReturn

NextPipeline ==
    \/ PipelineAdd
    \/ PipelineAdd_v1
    \/ PipelineReturn
    \/ PipelineDeliver
    \/ PipelineProcess
    \/ PipelineNext

----------------------------------------------------------------------------
(* Specifications *)

CallIdle ==
    /\ ctor = "NewSchemaRegistryClient"
    /\ callPc = "idle"
    /\ offset = 0
    /\ i = 0
    /\ resp = NoResp
    /\ log = <<>>
    /\ ret = NoRet
    /\ payload = NoPayload

TransportIdle ==
    /\ client = NewSchemaRegistryClient(<<"A">>)
    /\ CallIdle

CodecIdle ==
    /\ enc = [SchemaID |-> W(0, 0), Content |-> <<>>]
    /\ wire = NotEncoded
    /\ rec = NoRecord
    /\ out = NoOutcome

\* the codec alone: the registry client is built and idle
CodecStart == InitCodec /\ TransportIdle /\ CacheIdle /\ ConsumerIdle /\ ProducerIdle

\* the transport alone: nothing is being encoded, the cache is empty
TransportStart == InitTransport /\ CodecIdle /\ CacheIdle /\ ConsumerIdle /\ ProducerIdle

\* the caching client alone, over a client that is not otherwise in use
CacheStart == InitCache /\ CodecIdle /\ CallIdle /\ ConsumerIdle /\ ProducerIdle

SpecCodec == CodecStart /\ [][NextCodec]_vars

SpecTransport == TransportStart /\ [][NextTransport]_vars

SpecCache == CacheStart /\ [][NextCache]_vars
SpecForwarding == CacheStart /\ [][NextForwarding]_vars

\* each calling goroutine keeps running while its next statement can run, and
\* a registry call that is in flight returns; nobody is obliged to call
SpecCacheFair == SpecCache /\ \A p \in Callers : WF_vars(CallerStep(p))

\* one consumer, with the registry and the Avro engine as outcomes
ConsumerStart == InitConsumer /\ CodecIdle /\ TransportIdle /\ CacheIdle /\ ProducerIdle

SpecConsumer == ConsumerStart /\ [][NextConsumer]_vars

\* the goroutines of the consumer keep running while they can take a step;
\* the bus, the signal and the host application are under no obligation
SpecConsumerFair ==
    /\ SpecConsumer
    /\ WF_vars(LoopSelect) /\ WF_vars(LoopProcessAvroMsg)
    /\ WF_vars(LoopStatement) /\ WF_vars(LoopCallbackReturn)
    /\ WF_vars(ErrListenerReceive) /\ WF_vars(ErrListenerReturn)
    /\ WF_vars(ErrListenerEnd)
    /\ WF_vars(NotifListenerReceive) /\ WF_vars(NotifListenerReturn)
    /\ WF_vars(NotifListenerEnd)

\* the producer alone
ProducerStart == InitProducer /\ CodecIdle /\ TransportIdle /\ CacheIdle /\ ConsumerIdle

SpecProducer == ProducerStart /\ [][NextProducer]_vars
SpecPipeline == ProducerStart /\ [][NextPipeline]_vars

----------------------------------------------------------------------------
(* Caching client properties (SpecCache) *)

InFetch(c) == c.pc \in {"gs_fetch", "gs_lock", "gs_write", "gs_unlock",
                        "cs_fetch", "cs_lock", "cs_write", "cs_unlock"}

\* C1: a GetSchema(id) invoked after some GetSchema(id) has returned
\* successfully sends no request to the registry and returns the schema
\* that first call returned.
C1_CacheIdempotence ==
    \A p \in Callers :
        LET c == callers[p] IN
        (c.op.name = "GetSchema" /\ c.before.seen # NoCodec) =>
            /\ c.reqs = 0
            /\ c.calls = 0
            /\ ~InFetch(c)
            /\ (c.pc = "returned" =>
                  c.res = [err |-> NoErr, codec |-> c.before.seen, id |-> 0])

\* C1 witness: a GetSchema invoked after the first success has returned
C1_Witness ==
    \E p \in Callers :
        /\ callers[p].op.name = "GetSchema"
        /\ callers[p].before.seen # NoCodec
        /\ callers[p].pc = "returned"
        /\ callers[p].res.codec = callers[p].before.seen
        /\ callers[p].reqs = 0

RegistrySchema(id) == SchemaField(RegistryBody(GetSchemaOp(id)))
RegistryId(t) == IdField(RegistryBody(CreateSubjectOp("", t)))

\* C20: a GetSchema or CreateSubject whose registry call ends in an error
\* returns the error without having written to a cache map, so the maps
\* hold nothing but complete results of successful calls; a call returns
\* without a registry call only on an entry, and a CreateSubject that
\* follows a failed one with the same key issues a fresh registry call.
C20_FailuresNotCached ==
    /\ \A p \in Callers :
          (callers[p].pc = "returned" /\ callers[p].res.err # NoErr) =>
             /\ ~callers[p].wrote
             /\ callers[p].calls = 1
    /\ \A id \in CacheIds : schemaCache[id] \in {NoCodec, RegistrySchema(id)}
    /\ \A t \in CacheSchemas :
          schemaIdCache[t] \in {[found |-> FALSE, id |-> 0],
                                [found |-> TRUE, id |-> RegistryId(t)]}
    /\ \A p \in Callers :
          (callers[p].pc = "returned" /\ callers[p].calls = 0) =>
             /\ callers[p].res.err = NoErr
             /\ callers[p].op.name = "GetSchema" =>
                   schemaCache[callers[p].op.id] # NoCodec
             /\ callers[p].op.name = "CreateSubject" =>
                   schemaIdCache[callers[p].op.schema].found
    /\ \A p \in Callers :
          (/\ \A q \in Callers \ {p} : callers[q].pc = "idle"
           /\ callers[p].pc = "returned"
           /\ callers[p].op.name = "CreateSubject"
           /\ callers[p].before.prev.subject = callers[p].op.subject
           /\ ~callers[p].before.prev.ok)
          => callers[p].calls = 1

\* a CreateSubject failed, the map stayed empty, and the next call with the
\* same key went to the registry again and succeeded
C20_Witness ==
    \E p \in Callers :
       /\ \A q \in Callers \ {p} : callers[q].pc = "idle"
       /\ callers[p].pc = "returned"
       /\ callers[p].op.name = "CreateSubject"
       /\ callers[p].before.prev.subject = callers[p].op.subject
       /\ ~callers[p].before.prev.ok
       /\ callers[p].before.prev.calls = 1
       /\ callers[p].calls = 1
       /\ callers[p].res.err = NoErr
       /\ callers[p].wrote

\* C25 (as claimed): a CreateSubject(S2, X) call that returns without having
\* entered the wrapped client was preceded by a CreateSubject(S2, X) call
\* that registered X under S2.
C25_KeyedBySubjectAndSchema ==
    \A p \in Callers :
        (/\ callers[p].pc = "returned"
         /\ callers[p].op.name = "CreateSubject"
         /\ callers[p].calls = 0) =>
            lastCreate.registered[callers[p].op.subject][callers[p].op.schema]

\* C27: no step of any caller removes a key from the identifier->schema map
\* or from the schema-text->identifier map, and, the registry answering a
\* key with one result, no step changes the value a key is cached with.
C27_AppendOnly ==
    [][/\ \A id \in CacheIds :
            schemaCache[id] # NoCodec => schemaCache'[id] = schemaCache[id]
       /\ \A t \in CacheSchemas :
            schemaIdCache[t].found => schemaIdCache'[t] = schemaIdCache[t]]_vars

\* C27 witness: with both schemas cached, a caller that had missed before
\* the first caller's write has written the entry of identifier 1 again
C27_Witness ==
    /\ schemaCache[1] # NoCodec
    /\ schemaCache[2] # NoCodec
    /\ \E p \in Callers :
         /\ callers[p].pc = "gs_unlock"
         /\ callers[p].op.id = 1
         /\ firstSchema[1] # NoCodec
         /\ schemaCache[1] = firstSchema[1]

\* where a caller reads a map (between RLock and RUnlock) and where it
\* writes one (between Lock and Unlock)
ReadPcs(map) == IF map = "schemaCache" THEN {"gs_read", "gs_runlock"}
                ELSE {"cs_read", "cs_runlock"}
WritePcs(map) == IF map = "schemaCache" THEN {"gs_write", "gs_unlock"}
                 ELSE {"cs_write", "cs_unlock"}
LockOf(map) == IF map = "schemaCache" THEN schemaCacheLock ELSE schemaIdCacheLock

\* C28: a caller reads a cache map only while it holds the map's lock in
\* shared mode and writes it only while it holds the lock in exclusive mode;
\* while one caller is writing a map no other caller is reading or writing
\* that map.
C28_LockDiscipline ==
    \A map \in {"schemaCache", "schemaIdCache"} :
       /\ \A p \in Callers :
            /\ callers[p].pc \in ReadPcs(map) => p \in LockOf(map).readers
            /\ callers[p].pc \in WritePcs(map) => LockOf(map).writer = p
       /\ LockOf(map).writer # 0 => LockOf(map).readers = {}
       /\ \A p, q \in Callers :
            (p # q /\ callers[p].pc \in WritePcs(map)) =>
               callers[q].pc \notin (ReadPcs(map) \cup WritePcs(map))

\* C28 witness: one caller is about to write the entry of identifier 1
\* while the other, asking for the same identifier, waits for the read lock
C28_Witness ==
    \E p, q \in Callers :
       /\ callers[p].pc = "gs_write"
       /\ callers[q].pc = "gs_rlock"
       /\ callers[p].op.id = 1
       /\ callers[q].op.id = 1
       /\ schemaCacheLock.writer = p

\* C29: GetSchema calls for one identifier are not merged: a caller that
\* misses fetches for itself, also while another caller's fetch for the same
\* identifier is in flight; of two such calls, those whose fetch succeeds
\* return the same schema, and the map then holds that schema for the
\* identifier.
C29_NoSingleFlight ==
    \A p, q \in Callers :
       (/\ p # q
        /\ callers[p].op.name = "GetSchema"
        /\ callers[q].op = callers[p].op
        /\ callers[p].pc = "returned" /\ callers[p].res.err = NoErr
        /\ callers[q].pc = "returned" /\ callers[q].res.err = NoErr) =>
           /\ callers[p].res.codec = callers[q].res.codec
           /\ callers[p].res.codec # NoCodec
           /\ schemaCache[callers[p].op.id] = callers[p].res.codec

\* C29 witness: two calls for identifier 1 have each made their own registry
\* call, the second entering its fetch while the first one's was in flight,
\* and both have returned the same schema
C29_Witness ==
    \E p, q \in Callers :
       /\ p # q
       /\ callers[p].op = GetSchemaOp(1) /\ callers[q].op = GetSchemaOp(1)
       /\ callers[p].pc = "returned" /\ callers[q].pc = "returned"
       /\ callers[p].calls = 1 /\ callers[q].calls = 1
       /\ callers[q].overlapped
       /\ callers[p].wrote /\ callers[q].wrote
       /\ callers[p].res = callers[q].res
       /\ callers[p].res.err = NoErr
       /\ schemaCache[1] = callers[p].res.codec

\* caller p holds the lock, shared or exclusive
Holds(p, lock) == p \in lock.readers \/ lock.writer = p

FetchPcs == {"gs_fetch", "cs_fetch"}

\* caller p is inside GetSchema or CreateSubject
Busy(p) == callers[p].pc \notin {"idle", "returned"}

\* C34 (state part): no caller holds both cache locks at once, none holds a
\* cache lock while its registry call is in flight, and a caller is never
\* held up by callers that are waiting for the registry: when every other
\* caller is in a registry call or outside the cache, its next statement can
\* run.
C34_LocksNotHeldAcrossFetch ==
    \A p \in Callers :
       /\ ~(Holds(p, schemaCacheLock) /\ Holds(p, schemaIdCacheLock))
       /\ callers[p].pc \in FetchPcs =>
             ~Holds(p, schemaCacheLock) /\ ~Holds(p, schemaIdCacheLock)
       /\ (/\ Busy(p)
           /\ \A q \in Callers \ {p} : callers[q].pc \in FetchPcs \/ ~Busy(q)) =>
             ENABLED CallerStep(p)

\* C34: the cache cannot deadlock and never blocks on the network: the lock
\* rules above hold in every state, and under every interleaving of GetSchema
\* and CreateSubject callers every call that was made eventually returns.
C34_NoDeadlock ==
    /\ []C34_LocksNotHeldAcrossFetch
    /\ \A p \in Callers : (Busy(p) ~> callers[p].pc = "returned")

\* C34 witness: one caller's fetch for identifier 1 is in flight while the
\* other holds the read lock of the same map and has found identifier 2
C34_Witness ==
    \E p, q \in Callers :
       /\ callers[p].pc = "gs_fetch" /\ callers[p].op.id = 1
       /\ callers[q].pc = "gs_runlock" /\ callers[q].op.id = 2
       /\ CacheHit(callers[q].cachedResult)
       /\ q \in schemaCacheLock.readers

----------------------------------------------------------------------------
(* Registry transport properties (SpecTransport) *)

Is5xx(e) == e.outcome = "answered" /\ e.status \in 500..599
IsSuccess(e) == e.outcome = "answered" /\ e.status \in 200..399
LastEntry == log[Len(log)]

\* C2: while every attempt of a call is answered 5xx the call makes no more
\* than retries+1 attempts, and it ends, with an error, after exactly
\* retries+1 of them - whatever the number of endpoints and the start index.
C2_RetryBound ==
    (client.retries >= 0 /\ Len(log) >= 1 /\ \A k \in 1..Len(log) : Is5xx(log[k])) =>
        /\ Len(log) <= client.retries + 1
        /\ (callPc = "done" <=> Len(log) = client.retries + 1)
        /\ (callPc = "done" => ret.kind = "error")

\* C2 witness: a call over two endpoints with retries = MaxRetries has ended
\* after all of its attempts were answered 5xx
C2_Witness ==
    /\ callPc = "done"
    /\ nServers(client) = 2
    /\ client.retries = MaxRetries
    /\ Len(log) = MaxRetries + 1
    /\ \A k \in 1..Len(log) : Is5xx(log[k])
    /\ ret.kind = "error"

\* C3: attempt number i is followed by another attempt exactly when
\* i < retries and the attempt failed at transport level or was answered
\* 5xx; an attempt answered with any other non-success status ends the call
\* at once with an error.
C3_RetryDecision ==
    [][(callPc = "loop" /\ Len(log') = Len(log) + 1) =>
         LET e == log'[Len(log')] IN
         /\ (callPc' = "loop" /\ i' = i + 1)
              <=> (i < client.retries /\ (e.outcome = "failed" \/ Is5xx(e)))
         /\ (callPc' = "loop" \/ callPc' = "done")
         /\ (e.outcome = "answered" /\ ~IsSuccess(e) /\ ~Is5xx(e)) =>
              (callPc' = "done" /\ ret'.kind = "error" /\ i' = i)]_vars

\* C3 witness: a first attempt answered 404 has ended a call that had its
\* whole retry budget left
C3_Witness ==
    /\ callPc = "done"
    /\ client.retries = MaxRetries
    /\ Len(log) = 1
    /\ log[1].outcome = "answered"
    /\ log[1].status = 404
    /\ ret.kind = "error"

\* C4: endpoints A and B, default retry budget: if every attempt sent to A
\* failed at transport level and every attempt sent to B was answered with
\* a success status, the finished call has succeeded with B's body.
C4_Failover ==
    (/\ callPc = "done"
     /\ ctor = "NewSchemaRegistryClient"
     /\ client.SchemaRegistryConnect = <<"A", "B">>
     /\ \A k \in 1..Len(log) :
            /\ log[k].ep = "A" => log[k].outcome = "failed"
            /\ log[k].ep = "B" => IsSuccess(log[k])) =>
        /\ ret = Ok(resp.body)
        /\ LastEntry.ep = "B"
        /\ Len(log) = IF offset = 0 THEN 2 ELSE 1

\* C4 witness: the call that started at A has failed over to B
C4_Witness ==
    /\ callPc = "done"
    /\ ctor = "NewSchemaRegistryClient"
    /\ client.SchemaRegistryConnect = <<"A", "B">>
    /\ offset = 0
    /\ Len(log) = 2
    /\ log[1].ep = "A" /\ log[1].outcome = "failed"
    /\ log[2].ep = "B" /\ IsSuccess(log[2])
    /\ ret.kind = "ok"

\* C5: j <= retries attempts answered 5xx and then one answered with a
\* success status: the call is over after exactly j+1 requests and returns
\* that response's body without error (decoded by GetSubjects when it is a
\* list of subjects).
C5_Recovery ==
    \A j \in 0..(Len(log) - 1) :
        (/\ j <= client.retries
         /\ \A k \in 1..j : Is5xx(log[k])
         /\ IsSuccess(log[j + 1])) =>
            /\ Len(log) = j + 1
            /\ callPc = "done"
            /\ ret = Ok(resp.body)
            /\ (resp.body = "L1" =>
                  GetSubjects(ret) = [err |-> NoErr, subjects |-> <<"test">>])

\* C5 witness: two 5xx answers, then a success with status 399, retries = 2
C5_Witness ==
    /\ callPc = "done"
    /\ client.retries = 2
    /\ Len(log) = 3
    /\ Is5xx(log[1]) /\ Is5xx(log[2])
    /\ log[3].outcome = "answered" /\ log[3].status = 399
    /\ resp.body = "L1"
    /\ ret = Ok("L1")

\* C6: a call that ends in an error after its last permitted attempt
\* returns the error of that attempt: the transport error itself, or, for a
\* non-success response whose body is {error_code, message}, exactly that
\* pair.
C6_LastError ==
    (/\ callPc = "done"
     /\ ret.kind = "error"
     /\ Len(log) = client.retries + 1
     /\ LastEntry.outcome # "unsent") =>
        /\ (LastEntry.outcome = "failed" => ret.err = resp.err /\ resp.err \in TransportErrs)
        /\ (LastEntry.outcome = "answered" /\ IsErrorBody(resp.body)) =>
              /\ ret.err.code = ErrorBody(resp.body).error_code
              /\ ret.err.message = ErrorBody(resp.body).message

\* C6 witness: the retries are used up; the last answer is a 500 whose body
\* is the error object E2 and the call returns E2's pair
C6_Witness ==
    /\ callPc = "done"
    /\ client.retries >= 1
    /\ Len(log) = client.retries + 1
    /\ Is5xx(LastEntry)
    /\ resp.body = "E2"
    /\ ret.kind = "error"
    /\ ret.err.code = 40401
    /\ ret.err.message = "Subject not found"

\* every attempt made so far has failed: no answer, or a 5xx answer
AllFailed ==
    /\ Len(log) >= 1
    /\ \A k \in 1..Len(log) : log[k].outcome = "failed" \/ Is5xx(log[k])

\* number of attempts sent to the n-th configured endpoint
AttemptsTo(n) ==
    Cardinality({k \in 1..Len(log) : log[k].ep = client.SchemaRegistryConnect[n]})

\* C23 (as claimed): under the default budget a call in which every attempt
\* fails attempts each endpoint exactly once.
C23_Original ==
    (ctor = "NewSchemaRegistryClient" /\ callPc = "done" /\ AllFailed) =>
        \A n \in 1..nServers(client) : AttemptsTo(n) = 1

\* C23 (amended): the default constructor over N endpoints sets the retry
\* budget to N; a call in which every attempt fails then makes N+1 attempts,
\* one to each endpoint and a second one to the endpoint it started with;
\* with an explicit retry count r it makes max(r, 0)+1 attempts whatever N is.
C23_DefaultBudget ==
    /\ ctor = "NewSchemaRegistryClient" => client.retries = nServers(client)
    /\ (ctor = "NewSchemaRegistryClient" /\ AllFailed) =>
          /\ Len(log) <= nServers(client) + 1
          /\ callPc = "done" <=> Len(log) = nServers(client) + 1
          /\ \A n \in 1..nServers(client) :
                /\ AttemptsTo(n) <= IF n = offset + 1 THEN 2 ELSE 1
                /\ callPc = "done" => AttemptsTo(n) = IF n = offset + 1 THEN 2 ELSE 1
    /\ (ctor = "NewSchemaRegistryClientWithRetries" /\ AllFailed) =>
          (callPc = "done" <=>
              Len(log) = (IF client.retries > 0 THEN client.retries ELSE 0) + 1)

\* C23 witness: default budget over A and B, start at B: B, A and B again
\* have failed and the call has ended
C23_Witness ==
    /\ ctor = "NewSchemaRegistryClient"
    /\ client.SchemaRegistryConnect = <<"A", "B">>
    /\ callPc = "done"
    /\ AllFailed
    /\ <<log[1].ep, log[2].ep, log[3].ep>> = <<"B", "A", "B">>
    /\ ret.kind = "error"

\* position (from 0) of an endpoint in the configured list
IndexOf(ep) ==
    CHOOSE n \in 0..(nServers(client) - 1) : client.SchemaRegistryConnect[n + 1] = ep

\* C24: in a call that makes attempts the start index lies in [0, N), the
\* first attempt goes to the endpoint at the start index, each further attempt
\* to the cyclically next endpoint (attempt a to index (start + a) mod N),
\* every attempt to a configured endpoint, and the start index does not
\* change between the attempts of the call.
C24_RoundRobin ==
    /\ [](callPc \in {"loop", "done"} /\ nServers(client) >= 1 =>
            /\ offset \in 0..(nServers(client) - 1)
            /\ \A k \in 1..Len(log) :
                  /\ \E n \in 0..(nServers(client) - 1) :
                        client.SchemaRegistryConnect[n + 1] = log[k].ep
                  /\ k = 1 => IndexOf(log[k].ep) = offset
                  /\ k > 1 => IndexOf(log[k].ep) =
                                 IF IndexOf(log[k - 1].ep) = nServers(client) - 1
                                 THEN 0 ELSE IndexOf(log[k - 1].ep) + 1)
    /\ [][callPc = "loop" => offset' = offset]_vars

\* C24 witness: retries = 2 over A and B, start at A: A and B were answered
\* 5xx and the third attempt, to A again, was answered 200
C24_Witness ==
    /\ callPc = "done"
    /\ ctor = "NewSchemaRegistryClientWithRetries"
    /\ client.SchemaRegistryConnect = <<"A", "B">>
    /\ offset = 0
    /\ Len(log) = 3
    /\ <<log[1].ep, log[2].ep, log[3].ep>> = <<"A", "B", "A">>
    /\ Is5xx(log[1]) /\ Is5xx(log[2]) /\ log[3].status = 200

\* C30: every attempt of one CreateSubject or IsSchemaRegistered call that
\* sends a request, each retry after a 5xx response included, carries the
\* whole JSON body of the call; none is sent with an empty or truncated body
C30_SameRequestBody ==
    payload.method = "POST" =>
        \A k \in 1..Len(log) :
            log[k].outcome # "unsent" => log[k].body = SchemaJson

----------------------------------------------------------------------------
(* Consumer properties (SpecConsumer, SpecConsumerFair) *)

\* number of events ev that src logged for n
Count(ev, src, n) ==
    Cardinality({k \in 1..Len(trace) :
                    trace[k].ev = ev /\ trace[k].src = src /\ trace[k].n = n})

\* the offsets of the loop's events ev, in the order they happened
Offsets(ev) ==
    LET s == SelectSeq(trace, LAMBDA e : e.ev = ev /\ e.src = "loop")
    IN [k \in 1..Len(s) |-> s[k].n]

IsPrefix(s, t) == Len(s) <= Len(t) /\ SubSeq(t, 1, Len(s)) = s

\* the loop is done with record n: it is back at the select, has returned,
\* or holds a later record
MovedPast(n) == loop.pc \in {"select", "exited"} \/ loop.m.Offset # n

\* C11: when schema resolution or payload decoding fails for a received
\* record, the error callback is invoked, the offset of the record is still
\* marked, and the receive loop is not ended by the failure: it returns to
\* the select for the next record.
C11_LivenessOnFailure ==
    \A k \in 1..Len(trace) :
       trace[k].ev = "failed" =>
          LET n == trace[k].n IN
          /\ ~(loop.pc = "panicked" /\ loop.m.Offset = n)
          /\ MovedPast(n) => /\ Count("OnError", "loop", n) = 1
                             /\ Count("MarkOffset", "loop", n) = 1

\* C12: OnDataReceived for a record is invoked only after MarkOffset for
\* that record.
C12_MarkThenNotify ==
    \A k \in 1..Len(trace) :
       trace[k].ev = "OnDataReceived" =>
          \E j \in 1..(k - 1) :
             /\ trace[j].ev = "MarkOffset"
             /\ trace[j].n = trace[k].n

\* a successfully decoded record was marked and then handed to the hook
C12_Witness ==
    \E k \in 1..Len(trace) :
       /\ trace[k].ev = "OnDataReceived"
       /\ trace[k].arg = trace[k].n
       /\ trace[k].n = 2

\* C13: the records marked, and the records handed to OnDataReceived, are
\* the records the bus delivered, in that order: the loop marks in the order
\* it receives, and whenever it is not in the middle of a record every
\* received record has been marked (and notified) exactly once.
C13_DeliveryOrder ==
    /\ \A k \in 1..Len(Offsets("receive")) : Offsets("receive")[k] = k
    /\ IsPrefix(Offsets("MarkOffset"), Offsets("receive"))
    /\ callbacks.OnDataReceived =>
          IsPrefix(Offsets("OnDataReceived"), Offsets("MarkOffset"))
    /\ loop.pc \in {"select", "exited", "panicked"} =>
          /\ Offsets("MarkOffset") = Offsets("receive")
          /\ callbacks.OnDataReceived =>
                Offsets("OnDataReceived") = Offsets("receive")

\* C14: once the cancellation signal is pending the loop picks up no
\* further record: every record is taken off the message channel while no
\* signal is pending.
C14_CancellationAtBoundary ==
    [][(loop.pc = "select" /\ loop'.pc = "process") => signals = 0]_vars

\* C15: after the cancellation signal the consumer reaches Closed: once the
\* receive loop has exited, the bus connection is eventually closed.
C15_ShutdownReachesClosed == [](loop.pc = "exited" => <>closed)

\* C16: every failure of the main loop and every error taken off the error
\* channel results in exactly one OnError invocation carrying it, and no
\* failure ends the receive loop.
C16_ErrorsNeverLost ==
    \A k \in 1..Len(trace) :
       LET n == trace[k].n IN
       /\ (trace[k].ev = "failed") =>
             /\ Count("OnError", "loop", n) <= 1
             /\ MovedPast(n) => Count("OnError", "loop", n) = 1
             /\ ~(loop.pc = "panicked" /\ loop.m.Offset = n)
       /\ (trace[k].ev = "receive" /\ trace[k].src = "errors") =>
             Count("OnError", "errors", n) = 1

\* the loop's event ev for record n comes before its event later for n
Precedes(ev, later) ==
    \A k \in 1..Len(trace) :
       (trace[k].ev = later /\ trace[k].src = "loop") =>
          \E j \in 1..(k - 1) :
             /\ trace[j].ev = ev
             /\ trace[j].src = "loop"
             /\ trace[j].n = trace[k].n

\* C26 (as claimed): the error callback for a record whose resolution or
\* decoding failed is invoked only after the record's offset was marked.
C26_MarkBeforeOnError == Precedes("MarkOffset", "OnError")

\* C26 (amended): the offset of a record whose resolution or decoding failed
\* is marked only after the error callback for that failure was invoked.
C26_OnErrorBeforeMark ==
    \A k \in 1..Len(trace) :
       (/\ trace[k].ev = "MarkOffset"
        /\ \E f \in 1..Len(trace) : trace[f].ev = "failed" /\ trace[f].n = trace[k].n) =>
          \E j \in 1..(k - 1) :
             /\ trace[j].ev = "OnError"
             /\ trace[j].src = "loop"
             /\ trace[j].n = trace[k].n

\* the second record failed, the hook was called, and the record was marked
C26_Witness ==
    \E f, j, k \in 1..Len(trace) :
       /\ f < j /\ j < k
       /\ trace[f] = Ev("failed", "loop", 2, 0)
       /\ trace[j] = Ev("OnError", "loop", 2, 0)
       /\ trace[k] = Ev("MarkOffset", "loop", 2, 0)

\* C31: OnDataReceived is invoked only for records that were resolved and
\* decoded, with the Message built from that record; a record whose
\* resolution or decoding failed gets OnError and no OnDataReceived.
C31_DataCallbackOnlyOnSuccess ==
    \A k \in 1..Len(trace) :
       LET n == trace[k].n IN
       /\ (trace[k].ev = "OnDataReceived") =>
             /\ trace[k].arg = n
             /\ Count("failed", "loop", n) = 0
       /\ (trace[k].ev = "failed" /\ MovedPast(n)) =>
             Count("OnDataReceived", "loop", n) = 0

\* the hook that an invocation event names
HookOf(e) ==
    IF e.ev \in {"OnDataReceived", "OnError", "OnNotification"}
    THEN callbacks[e.ev]
    ELSE TRUE

\* C32: for every combination of set and unset hooks an unset hook is never
\* invoked, and a resolution or decoding failure with OnError unset is
\* skipped: it does not crash or stop the receive loop.
C32_HooksOptional ==
    \A k \in 1..Len(trace) :
       /\ HookOf(trace[k])
       /\ (trace[k].ev = "failed" /\ ~callbacks.OnError) =>
             ~(loop.pc = "panicked" /\ loop.m.Offset = trace[k].n)

\* the events of the receive loop
LoopEvents(t) == SelectSeq(t, LAMBDA e : e.src = "loop")

\* C35: Consume returns only from the select and only by taking the
\* cancellation signal; while Messages() is closed and drained and no signal
\* is pending the loop stays at the select and receives, processes and marks
\* nothing; each listener ends only when its own channel is closed and
\* drained.  (A panic ends the process; it is not a return of Consume.)
C35_ReturnsOnlyOnCancellation ==
    [][/\ (loop.pc # "exited" /\ loop'.pc = "exited") =>
             (loop.pc = "select" /\ signals = 1 /\ signals' = 0)
       /\ (loop.pc = "select" /\ messages = <<>> /\ closed /\ signals = 0) =>
             (loop' = loop /\ LoopEvents(trace') = LoopEvents(trace))
       /\ (errListener.pc # "ended" /\ errListener'.pc = "ended") =>
             (closed /\ errors = <<>>)
       /\ (notifListener.pc # "ended" /\ notifListener'.pc = "ended") =>
             (closed /\ notifications = <<>>)]_vars

\* C35 witness: the bus was closed after a record was received, both
\* listeners have ended, and the loop is still at the select with no signal
C35_Witness ==
    /\ loop.pc = "select"
    /\ closed /\ messages = <<>> /\ signals = 0
    /\ Offsets("receive") = <<1>>
    /\ errListener.pc = "ended"
    /\ notifListener.pc = "ended"

\* the receive loop is inside a hook it called
LoopInHook == loop.pc \in {"inOnError", "inOnDataReceived"}

\* C36: the hooks are called from three tasks with no mutual exclusion: a
\* hook in progress in one task never holds up a call from another.  While
\* the loop is inside a hook each listener can take its next event and call
\* its hook, and while a listener is inside its hook the loop can run its
\* next statement, a call of OnError or OnDataReceived included.
C36_CallbacksNotSerialized ==
    /\ (LoopInHook /\ errListener.pc = "range" /\ errors # <<>>) =>
          ENABLED ErrListenerReceive
    /\ (LoopInHook /\ notifListener.pc = "range" /\ notifications # <<>>) =>
          ENABLED NotifListenerReceive
    /\ (loop.pc = "body" /\ (errListener.pc = "inOnError"
                               \/ notifListener.pc = "inOnNotification")) =>
          ENABLED LoopStatement

\* C36 witness: two invocations of OnError are in progress, one made by the
\* receive loop for a failed record and one by the error listener
C36_Witness ==
    /\ loop.pc = "inOnError"
    /\ errListener.pc = "inOnError"
    /\ \E k \in 1..Len(trace) : trace[k] = Ev("failed", "loop", loop.m.Offset, 0)

\* OnNotification is in progress while the loop is inside OnDataReceived
C36_NotificationDuringData ==
    /\ loop.pc = "inOnDataReceived"
    /\ notifListener.pc = "inOnNotification"

----------------------------------------------------------------------------
(* Producer properties (SpecProducer) *)

\* the lookup failed with "Subject '<topic>-value' not found"
LookupNotFound ==
    pcall.lookup.err = <<"404 Not Found: ", "Subject '", pcall.topic \o "-value",
                         "' not found", ".">>

\* C17: GetSchemaID returns the id of a successful lookup without
\* registering; it registers if and only if the lookup failed with the
\* subject-not-found condition of the topic's value subject and a non-empty
\* schema was supplied; every other lookup failure, or an empty schema,
\* returns the lookup error and registers nothing.
C17_IdentifierResolution ==
    (pcall.op = "GetSchemaID") =>
       /\ pcall.lookup.err = NilError =>
             /\ pret.kind = "ok"
             /\ pret.id = pcall.lookup.id
             /\ pret.registrations = 0
       /\ pret.registrations = 1 <=>
             (pcall.lookup.err # NilError /\ LookupNotFound /\ pcall.schema # "")
       /\ (pcall.lookup.err # NilError /\ ~(LookupNotFound /\ pcall.schema # "")) =>
             /\ pret.kind = "error"
             /\ pret.err = pcall.lookup.err
             /\ pret.registrations = 0

\* the subject is unknown, a schema is supplied and it is registered
C17_Witness ==
    /\ pcall.op = "GetSchemaID"
    /\ LookupNotFound
    /\ pcall.schema = "X"
    /\ pret.registrations = 1
    /\ pret.kind = "ok"
    /\ pret.id = pcall.create.id

\* the call got as far as converting the value
ConversionReached ==
    \/ pcall.op = "Add"
    \/ pcall.op = "Add_v1" /\ NewCodecOk(pcall.schema) /\ pcall.create.err = NilError

\* C18: when a conversion of the value fails, Add returns that error and
\* the bus send is not invoked; when the send fails, its error is returned
\* after exactly one send.
C18_SendFailures ==
    ConversionReached =>
       /\ ~pcall.textualOk =>
             pret.kind = "error" /\ pret.err = ConvertErr /\ pret.sends = 0
       /\ (pcall.textualOk /\ ~pcall.binaryOk) =>
             pret.kind = "error" /\ pret.err = EncodeErr /\ pret.sends = 0
       /\ (pcall.textualOk /\ pcall.binaryOk /\ ~pcall.sendOk) =>
             pret.kind = "error" /\ pret.err = SendErr /\ pret.sends = 1

\* the binary conversion failed and nothing was sent
C18_Witness ==
    /\ pcall.op = "Add"
    /\ pcall.textualOk /\ ~pcall.binaryOk /\ ~pcall.sendOk
    /\ pret.err = EncodeErr
    /\ pret.sends = 0

\* C19: Add(topic, schema, key, value) with schema text that does not parse
\* returns an error, issues no registry call, sends nothing and does not
\* crash.
C19_SchemaParseFailure ==
    (pcall.op = "Add_v1" /\ ~NewCodecOk(pcall.schema)) =>
       /\ pret.kind = "error"
       /\ pret.registrations = 0
       /\ pret.sends = 0

\* C33: when the lookup reports subject-not-found, a schema is supplied and
\* the registration itself fails, GetSchemaID returns the registration error
\* to its caller and does not crash.
C33_RegistrationFailureReturned ==
    (/\ pcall.op = "GetSchemaID"
     /\ LookupNotFound
     /\ pcall.schema # ""
     /\ pcall.create.err # NilError) =>
        /\ pret.kind = "error"
        /\ pret.err = pcall.create.err

----------------------------------------------------------------------------
(* Wire codec properties (SpecCodec) *)

InUint32(x) == x.hi \in 0..(TwoTo16 - 1) /\ x.lo \in 0..(TwoTo16 - 1)

\* C7: for a schema id i in [0, 2^32) and any payload p, what ProcessAvroMsg
\* reads back from Encode() of (i, p) is (i, p): the id it asks the registry
\* for is i, it does not panic, and the payload handed on is p.
C7_RoundTrip ==
    (wire.state = "delivered" /\ out.kind # "none" /\ InUint32(enc.SchemaID)) =>
        /\ out.kind # "panic"
        /\ out.asked = enc.SchemaID
        /\ (out.at \in {"NativeFromBinary", "return"} =>
               Slice(rec, 5, Len(rec.Value)) = enc.Content)
        /\ (out.kind = "ok" =>
               out.msg = [SchemaId |-> enc.SchemaID, Payload |-> enc.Content])

\* C7 witness: the largest id with the empty payload has made the round trip
C7_Witness ==
    /\ wire.state = "delivered"
    /\ out.kind = "ok"
    /\ enc.SchemaID = W(65535, 65535)
    /\ enc.Content = <<>>
    /\ out.msg.SchemaId = W(65535, 65535)

\* C8: Encode() is byte 0, then the id most significant byte first, then
\* the payload unchanged; its length is 5 + len(p) = Length() >= 5.
C8_EnvelopeLayout ==
    (wire.state # "none" /\ wire.state # "foreign" /\ InUint32(enc.SchemaID)) =>
        LET b == wire.bytes IN
        /\ Len(b) = 5 + Len(enc.Content)
        /\ Len(b) = wire.length
        /\ Len(b) >= 5
        /\ b[1] = 0
        /\ \A k \in 2..5 : b[k] \in 0..255
        /\ b[2] * TwoTo8 + b[3] = enc.SchemaID.hi
        /\ b[4] * TwoTo8 + b[5] = enc.SchemaID.lo
        /\ SubSeq(b, 6, Len(b)) = enc.Content

\* C8 witness: an id with four distinct bytes' worth of range and an empty
\* payload has been encoded into exactly five bytes
C8_Witness ==
    /\ wire.state = "encoded"
    /\ enc.SchemaID = W(256, 0)
    /\ enc.Content = <<>>
    /\ wire.bytes = <<0, 1, 0, 0, 0>>

\* C9 (as claimed): a record shorter than 5 bytes makes ProcessAvroMsg
\* return a MalformedEnvelope error, never a panic.
C9_MalformedEnvelope ==
    (out.kind # "none" /\ Len(rec.Value) < 5) =>
        (out.kind = "error" /\ out.at = "MalformedEnvelope")

----------------------------------------------------------------------------
(* Claims about the forwarded operations of the caching client            *)

Forwarded(c) == c.op.name \in PassThroughNames

\* C21: every invocation of GetSubjects, GetVersions, GetSchemaByVersion,
\* GetLatestSchema, IsSchemaRegistered, DeleteSubject or DeleteVersion on the
\* caching client enters the wrapped client exactly once and sends at least
\* one request, and no step of it changes either cache map
C21_PassThrough ==
    /\ [](\A p \in Callers :
            (Forwarded(callers[p]) /\ callers[p].pc = "returned")
               => /\ callers[p].calls = 1
                  /\ callers[p].reqs >= 1
                  /\ ~callers[p].wrote)
    /\ [][\A p \in Callers :
            (Forwarded(callers'[p]) /\ callers'[p] # callers[p])
               => UNCHANGED <<schemaCache, schemaIdCache>>]_vars

\* DeleteSubject or DeleteVersion has returned without an error while
\* both maps hold an entry
C21_Witness ==
    /\ schemaCache[1] # NoCodec
    /\ schemaIdCache["X"].found
    /\ \E p \in Callers :
         /\ callers[p].pc = "returned"
         /\ callers[p].op.name \in {"DeleteSubject", "DeleteVersion"}
         /\ callers[p].res.err = NoErr

----------------------------------------------------------------------------
(* Claims about the record processing result (SpecPipeline)                *)

\* C22: a Message returned by ProcessAvroMsg carries the big-endian integer
\* of bytes 1..4 of the record's value as SchemaId, the record's Topic,
\* Partition, Offset and Key, and the textual form of the datum decoded from
\* bytes 5.. as Value; for a record the producer framed from textual value v
\* under schema id i (a registry id, within the four bytes of the envelope),
\* Value = v and SchemaId = i
C22_ProcessingResult ==
    out.kind = "ok" =>
        /\ out.msg.SchemaId = BigEndianUint32(SubSeq(rec.Value, 2, 5))
        /\ out.msg.Topic = rec.Topic
        /\ out.msg.Partition = rec.Partition
        /\ out.msg.Offset = rec.Offset
        /\ out.msg.Key = rec.Key
        /\ LET read == NativeFromBinary(SubSeq(rec.Value, 6, Len(rec.Value))) IN
              read.ok /\ out.msg.Value = TextualFromNative(read.native)
        /\ rec.sent.framed =>
              (out.msg.Value = rec.sent.v /\ out.msg.SchemaId = rec.sent.i)

\* the two-byte value sent under id 2 with a key has come back
C22_Witness ==
    /\ out.kind = "ok"
    /\ rec.sent.framed
    /\ rec.sent.v = "v2"
    /\ out.msg = [SchemaId |-> W(0, 2), Topic |-> "t2", Partition |-> 1,
                  Offset |-> 7, Key |-> "k", Value |-> "v2"]

====
